---- MODULE Spec2Model ----
(***************************************************************************)
(* Model of radio-cli's playback engine: the Player (decoder process       *)
(* lifecycle), the shared AudioState behind AudioVisualizer, the metadata  *)
(* reader thread spawned per decoder, and the key dispatch of App::run.    *)
(*                                                                         *)
(* Text is a sequence of symbols.  The status markers are spelled symbol   *)
(* by symbol so that find / starts_with / trim act on them as the code     *)
(* does; opaque literals that no string operation ever looks into are one  *)
(* symbol.  Option<T> is a sequence of length 0 (None) or 1 (Some).        *)
(***************************************************************************)
EXTENDS Integers, Sequences, FiniteSets, TLC

\* ----------------------------------------------------------------------
\* Bounds
\* ----------------------------------------------------------------------
\* number of decoder processes the Player may spawn in one run
MaxProcs == 3
\* number of unread lines the decoders' stdout pipes may hold in total
MaxPipe == 1
\* number of volume key presses in a row that are followed
MaxCalls == 12
\* number of frames App::run has drawn when the animation is taken up
WarmupFrames == 150
\* number of frames followed from there with the play and stop keys served
MaxFrames == 2
\* number of frames followed from there while the player stays idle
IdleFrames == 120
\* number of frames followed from there with the bass targets at their extremes
BassFrames == 4
\* number of script steps two runs of the animation are followed for
TwinFrames == 3
\* number of frames followed while a reader thread takes the state lock
LockFrames == 4
\* number of frames followed with every Player operation and the readers
WriterFrames == 1
\* number of sinks play_tuning_sound may create in one run
MaxSinks == 2
\* number of fade-out threads fade_out_tuning_sound may spawn in one run
MaxFades == 1
\* largest rowid the stations table hands out in one run
MaxId == 3
\* number of bytes a form field may hold
MaxBytes == 3
\* number of pieces a directory page is put together from
MaxPieces == 4

None == <<>>
Some(x) == <<x>>

\* ----------------------------------------------------------------------
\* Text literals of src/audio/mod.rs
\* ----------------------------------------------------------------------
STATUS_COLON == <<"S", "T", "A", "T", "U", "S", ":">>
STATUS_PREFIX == STATUS_COLON \o <<" ">>
FORMAT_MARKER == <<"F", "O", "R", "M", "A", "T", ":">>
BITRATE_MARKER == <<"B", "I", "T", "R", "A", "T", "E", ":">>
KBPS_SUFFIX == <<" ", "k", "b", "p", "s">>
Unknown == <<"Unknown">>
Detecting == <<"Detecting...">>
ErrorText == <<"Error">>
FailedToStart == <<"Failed to start: ">>

\* ----------------------------------------------------------------------
\* String primitives (0-based offsets, as Rust byte offsets)
\* ----------------------------------------------------------------------
Min(a, b) == IF a <= b THEN a ELSE b

\* s[a..b]
Slice(s, a, b) == SubSeq(s, a + 1, b)

starts_with(s, pat) ==
    /\ Len(s) >= Len(pat)
    /\ Slice(s, 0, Len(pat)) = pat

\* str::find: offset of the first occurrence, None when there is none
find(s, pat) ==
    LET hits == {i \in 0..(Len(s) - Len(pat)) : Slice(s, i, i + Len(pat)) = pat}
    IN  IF hits = {} THEN None
        ELSE Some(CHOOSE i \in hits : \A j \in hits : i <= j)

RECURSIVE trim_start_matches(_, _)
trim_start_matches(s, pat) ==
    IF starts_with(s, pat)
    THEN trim_start_matches(Slice(s, Len(pat), Len(s)), pat)
    ELSE s

is_whitespace(c) == c \in {" ", "\t"}

RECURSIVE trim_start(_)
trim_start(s) ==
    IF s # <<>> /\ is_whitespace(Head(s)) THEN trim_start(Tail(s)) ELSE s

RECURSIVE trim_end(_)
trim_end(s) ==
    IF s # <<>> /\ is_whitespace(s[Len(s)])
    THEN trim_end(Slice(s, 0, Len(s) - 1))
    ELSE s

trim(s) == trim_end(trim_start(s))

\* an unwrap_or whose default is 0
unwrap_or_zero(opt, d) == IF opt = None THEN 0 ELSE opt[1]

unwrap_or(opt, d) == IF opt = None THEN d ELSE opt[1]

\* ----------------------------------------------------------------------
\* Metadata parser: the body of the reader thread for one STATUS line
\* ----------------------------------------------------------------------
\* Each field is cut out of line_str by a range start..end; Rust panics on
\* a range that is not inside the string with start <= end.
in_bounds(str, range) == 0 <= range[1] /\ range[1] <= range[2] /\ range[2] <= Len(str)

\* a format_end that forgets the offset of the tail it was searched in
FormatRange_relative(line_str) ==
    LET format_start == find(line_str, FORMAT_MARKER)[1] + Len(FORMAT_MARKER)
        rest == find(Slice(line_str, format_start, Len(line_str)), BITRATE_MARKER)
    IN  <<format_start, IF rest = None THEN Len(line_str) ELSE rest[1]>>

\* format_start..format_end, when line_str holds FORMAT:
FormatRange(line_str) ==
    LET format_start == find(line_str, FORMAT_MARKER)[1] + Len(FORMAT_MARKER)
        rest == find(Slice(line_str, format_start, Len(line_str)), BITRATE_MARKER)
    IN  <<format_start, IF rest = None THEN Len(line_str) ELSE format_start + rest[1]>>

\* bitrate_start.., when line_str holds BITRATE:
BitrateRange(line_str) ==
    <<find(line_str, BITRATE_MARKER)[1] + Len(BITRATE_MARKER), Len(line_str)>>

\* ..first_keyword
SongRange(line_str) ==
    <<0, Min(unwrap_or(find(line_str, FORMAT_MARKER), Len(line_str)),
             unwrap_or(find(line_str, BITRATE_MARKER), Len(line_str)))>>

\* every range the parser slices line_str with
SliceRanges(line_str) ==
    {SongRange(line_str)}
        \cup (IF find(line_str, FORMAT_MARKER) = None THEN {}
              ELSE {<<FormatRange(line_str)[1], Len(line_str)>>, FormatRange(line_str)})
        \cup (IF find(line_str, BITRATE_MARKER) = None THEN {}
              ELSE {BitrateRange(line_str)})

ParseFormat(line_str) ==
    IF find(line_str, FORMAT_MARKER) = None THEN Unknown
    ELSE trim(Slice(line_str, FormatRange(line_str)[1], FormatRange(line_str)[2]))

\* a bitrate that gets its suffix whether or not there is a value
ParseBitrate_always_suffixed(line_str) ==
    IF find(line_str, BITRATE_MARKER) = None THEN Unknown
    ELSE trim(Slice(line_str, BitrateRange(line_str)[1], BitrateRange(line_str)[2]))
             \o KBPS_SUFFIX

ParseBitrate(line_str) ==
    IF find(line_str, BITRATE_MARKER) = None THEN Unknown
    ELSE LET bitrate_value == trim(Slice(line_str, BitrateRange(line_str)[1],
                                         BitrateRange(line_str)[2]))
         IN  IF bitrate_value # <<>> THEN bitrate_value \o KBPS_SUFFIX ELSE Unknown

ParseSong(line_str) ==
    LET potential_song == trim(Slice(line_str, SongRange(line_str)[1],
                                     SongRange(line_str)[2]))
    IN  IF potential_song # <<>> THEN Some(potential_song) ELSE None

ParseStatusLine(line) ==
    LET line_str == trim_start_matches(line, STATUS_PREFIX)
    IN  [format |-> ParseFormat(line_str),
         bitrate |-> ParseBitrate(line_str),
         song |-> ParseSong(line_str)]

\* ----------------------------------------------------------------------
\* Inputs
\* ----------------------------------------------------------------------
\* stations the user can select: name and url
Catalog == {[name |-> <<"A">>, url |-> <<"u1">>],
            [name |-> <<"B">>, url |-> <<"u2">>]}

\* io::Error texts of a failed Command::spawn
SpawnErrors == {<<"No such file or directory (os error 2)">>}

\* a text that tells the decoders apart: the stream of decoder p has its own
\* titles and codec
Tag(p) == <<<<"1", "2", "3", "4", "5", "6">>[p]>>

\* what the decoder with pid p writes to its stdout: a status line in the
\* --term-status-msg format, a line of other output
DecoderLines(p) ==
    {STATUS_PREFIX \o <<"s">> \o Tag(p) \o <<" ">> \o FORMAT_MARKER \o <<" ", "m", "p">>
         \o Tag(p) \o <<" ">> \o BITRATE_MARKER \o <<" ", "1", "2", "8">>,
     <<"(", "+", ")", " ">> \o Tag(p)}

\* ----------------------------------------------------------------------
\* Animation model: AudioState::new and AudioState::update_visualization
\* ----------------------------------------------------------------------
\* f64 values are fixed-point numbers in units of 1/Scale; every product is
\* rounded to the nearest unit, as every f64 operation rounds its result
Scale == 10000

\* a * b for two fixed-point numbers, a * b >= 0
MulScaled(a, b) == (a * b + Scale \div 2) \div Scale

\* Vec::with_capacity(200) and the loop 0..200
INITIAL_STARS == 200
\* self.stars.len() < 250
MAX_STARS == 250
\* self.stars.len() > 50
MIN_STARS == 50

\* star.z = 0.01
FAR_AWAY == 100
\* the viewport: star.z > 1.0
VIEWPORT == Scale
\* the rest value of warp_speed, 0.5
IDLE_WARP == 5000

\* outcomes of the draws x, y in -1.0..1.0, brightness in 0.2..1.0, speed in
\* 0.005..0.02 and color in 0..5 that make one Star
DrawSlow == [x |-> -Scale, y |-> 0, brightness |-> 2000, speed |-> 50, color |-> 0]
DrawFast == [x |-> Scale - 1, y |-> -1, brightness |-> 9999, speed |-> 199, color |-> 4]
StarDraws == {DrawSlow, DrawFast}

\* outcomes of z in 0.01..1.0: depths from which a star is about to pass
\* the viewport when WarmupFrames frames have been drawn
InitDepths == {6620, 7000}

\* outcomes of the bass target: 0.8..1.0 on a bass drop, else 0.2..0.6
BassTargets(drop) == IF drop THEN {9999} ELSE {2000}

\* a Star from a draw and a depth
Star(d, z) == [x |-> d.x, y |-> d.y, z |-> z, brightness |-> d.brightness,
               speed |-> d.speed, color |-> d.color]

\* the animation fields of AudioState::new() when every star draws d and z
AudioStateNew(d, z) ==
    [stars |-> [i \in 1..INITIAL_STARS |-> Star(d, z)],
     bass_impact |-> 0,
     is_playing |-> FALSE,
     frame_count |-> 0,
     warp_speed |-> Scale]

\* The outcomes of thread_rng in one update_visualization call:
\*   drop, bass_target  gen_bool(0.05) and the target drawn after it
\*   reset              the draws of a star that is reset (every star reset
\*                      in the same call draws the same)
\*   recolor            gen_bool(0.3) of a star that is reset
\*   add, remove        gen_bool(0.05), gen_bool(0.01)
\*   push               the draws of the star that is appended
Rng(drops, resets, recolors, adds, pushes, removes) ==
    UNION {{[drop |-> dr, bass_target |-> t, reset |-> rs, recolor |-> rc,
             add |-> ad, push |-> ps, remove |-> rm] :
                t \in BassTargets(dr), rs \in resets, rc \in recolors,
                ad \in adds, ps \in pushes, rm \in removes} : dr \in drops}

\* a star that keeps flying when it has passed the viewport
advance_playing_no_reset(star, warp, r) ==
    [star EXCEPT !.z = @ + MulScaled(star.speed, warp)]

\* step 3 of the playing branch, for one star
advance_playing(star, warp, r) ==
    LET z == star.z + MulScaled(star.speed, warp)
    IN  IF z > VIEWPORT
        THEN [x |-> r.reset.x, y |-> r.reset.y, z |-> FAR_AWAY,
              brightness |-> r.reset.brightness, speed |-> r.reset.speed,
              color |-> IF r.recolor THEN r.reset.color ELSE star.color]
        ELSE [star EXCEPT !.z = z]

\* the star loop of the paused branch, for one star
advance_paused(star, warp, r) ==
    LET z == star.z + MulScaled(MulScaled(star.speed, warp), 2000)
    IN  IF z > VIEWPORT
        THEN [star EXCEPT !.x = r.reset.x, !.y = r.reset.y, !.z = FAR_AWAY]
        ELSE [star EXCEPT !.z = z]

\* a push without the test against 250
push_star_uncapped(moved, r) ==
    moved \o (IF r.add THEN <<Star(r.push, FAR_AWAY)>> ELSE <<>>)

\* step 4 of the playing branch
push_star(moved, r) ==
    moved \o (IF r.add /\ Len(moved) < MAX_STARS
              THEN <<Star(r.push, FAR_AWAY)>>
              ELSE <<>>)

\* the end of the paused branch
pop_star(moved, r) ==
    SubSeq(moved, 1, Len(moved) - (IF r.remove /\ Len(moved) > MIN_STARS
                                   THEN 1 ELSE 0))

\* a relaxation towards 0 instead of 0.5
relax_warp_to_zero(warp) == MulScaled(warp, 9500)

\* (warp_speed - 0.5) * 0.95 + 0.5
relax_warp(warp) == MulScaled(warp - IDLE_WARP, 9500) + IDLE_WARP

\* a bass impact that adds the target's share without decaying
smooth_bass_no_decay(bass, bass_target) == bass + MulScaled(bass_target, 1000)

\* self.bass_impact * 0.9 + bass_target * 0.1
smooth_bass(bass, bass_target) ==
    MulScaled(bass, 9000) + MulScaled(bass_target, 1000)

\* AudioState::update_visualization on the animation fields a, with the
\* random outcomes r
update_visualization(a, r) ==
    IF a.is_playing
    THEN LET bass == smooth_bass(a.bass_impact, r.bass_target)
             warp == Scale + MulScaled(bass, 2 * Scale)
             moved == [i \in 1..Len(a.stars) |-> advance_playing(a.stars[i], warp, r)]
         IN  [a EXCEPT !.frame_count = @ + 1,
                       !.bass_impact = bass,
                       !.warp_speed = warp,
                       !.stars = push_star(moved, r)]
    ELSE LET warp == relax_warp(a.warp_speed)
             moved == [i \in 1..Len(a.stars) |-> advance_paused(a.stars[i], warp, r)]
         IN  [a EXCEPT !.frame_count = @ + 1,
                       !.warp_speed = warp,
                       !.bass_impact = MulScaled(@, 9500),
                       !.stars = pop_star(moved, r)]

\* n calls of update_visualization in a row, each with the outcomes r.  The
\* test on the star field has TLC evaluate every state before the next call
\* is made from it; a star field is never empty.
RECURSIVE run_steps(_, _, _)
run_steps(a, n, r) ==
    IF n = 0 \/ a.stars = <<>> THEN a
    ELSE run_steps(update_visualization(a, r), n - 1, r)

\* ----------------------------------------------------------------------
\* State
\* ----------------------------------------------------------------------
VARIABLES
    current_player,     \* Player.current_player: Option<Child>, the pid held
    player_is_muted,    \* Player.is_muted
    is_playing,         \* AudioState.is_playing
    is_muted,           \* AudioState.is_muted
    volume,             \* AudioState.volume
    stream_info,        \* AudioState.stream_info: Option<StreamInfo>
    procs,              \* decoder processes spawned by the Player, by pid
    stdout,             \* per decoder, the unread lines of its stdout pipe
    reader,             \* per decoder, its metadata reader thread
    stars,              \* AudioState.stars: Vec<Star>
    bass_impact,        \* AudioState.bass_impact, in 1/Scale
    warp_speed,         \* AudioState.warp_speed, in 1/Scale
    frame_count,        \* AudioState.frame_count
    twin,               \* the AudioState of a second run of the same script
    effects,            \* the SoundEffectManager, its sinks and fade-out threads
    catalog,            \* the stations table, App.stations, list_state, current_station_id
    input,              \* the station form: its three fields, input_field, input_cursor
    rcast,              \* a directory page and the stations parsed from it
    mode,               \* App.mode
    run,                \* App::run: "loop" while in the main loop, else its result
    ret                 \* result of the last Player call that returns a Result

vars == <<current_player, player_is_muted, is_playing, is_muted, volume,
          stream_info, stars, bass_impact, warp_speed, frame_count, twin,
          effects, catalog, input, rcast, procs, stdout, reader, mode, run, ret>>

playerVars == <<current_player, player_is_muted>>
\* the fields the animation step writes
animVars == <<stars, bass_impact, warp_speed, frame_count>>
audioVars == <<is_playing, is_muted, volume, stream_info, animVars>>
osVars == <<procs, stdout, reader>>
\* the station catalog, the station form and the directory page
uiVars == <<catalog, input, rcast>>

Pids == 1..MaxProcs

\* the program runs once: there is no second run
NoTwin == <<>>

\* no SoundEffectManager is constructed
NoEffects == <<>>

\* the catalog, the form and the directory page are left out of account
NoCatalog == <<>>
NoInput == <<>>
NoRcast == <<>>

\* std::process::Child as the operating system sees it
Unborn == [status |-> "unborn", kill_calls |-> 0]

Spawned == Cardinality({p \in Pids : procs[p].status # "unborn"})

\* decoders started by the Player that are still running
Alive == {p \in Pids : procs[p].status = "running"}

Init ==
    /\ current_player = None
    /\ player_is_muted = FALSE
    /\ is_playing = FALSE
    /\ is_muted = FALSE
    /\ volume = 50
    /\ stream_info = None
    /\ stars = AudioStateNew(DrawSlow, FAR_AWAY).stars
    /\ bass_impact = AudioStateNew(DrawSlow, FAR_AWAY).bass_impact
    /\ warp_speed = AudioStateNew(DrawSlow, FAR_AWAY).warp_speed
    /\ frame_count = AudioStateNew(DrawSlow, FAR_AWAY).frame_count
    /\ twin = NoTwin
    /\ effects = NoEffects
    /\ catalog = NoCatalog
    /\ input = NoInput
    /\ rcast = NoRcast
    /\ procs = [p \in Pids |-> Unborn]
    /\ stdout = [p \in Pids |-> <<>>]
    /\ reader = [p \in Pids |-> "none"]
    /\ mode = "Normal"
    /\ run = "loop"
    /\ ret = "none"

\* ----------------------------------------------------------------------
\* AudioVisualizer setters (each one critical section of the state lock)
\* ----------------------------------------------------------------------
\* a set_stream_info that loses the station name
set_stream_info_no_name(station_name, bitrate, format) ==
    Some([bitrate |-> bitrate, format |-> format,
          station_name |-> <<>>, current_song |-> None])

\* a set_stream_info that stores its two texts in each other's field
set_stream_info_swapped(station_name, bitrate, format) ==
    Some([bitrate |-> format, format |-> bitrate,
          station_name |-> station_name, current_song |-> None])

\* set_stream_info(station_name, bitrate, format): the new stream_info
set_stream_info(station_name, bitrate, format) ==
    Some([bitrate |-> bitrate, format |-> format,
          station_name |-> station_name, current_song |-> None])

\* set_playing(playing): the new stream_info, given the one before
set_playing_info(info, playing) == IF ~playing THEN None ELSE info

\* an increase_volume without the test against 100
increase_volume_unguarded(v) == Min(v + 5, 255)

\* a decrease_volume that wraps around as u8 instead of saturating
decrease_volume_wrapping(v) == (v + 251) % 256

increase_volume(v) == IF v < 100 THEN Min(v + 5, 255) ELSE v

decrease_volume(v) == IF v > 0 THEN (IF v >= 5 THEN v - 5 ELSE 0) ELSE v

\* the volume after n calls of increase_volume, of decrease_volume
RECURSIVE increase_volume_times(_, _)
increase_volume_times(v, n) ==
    IF n = 0 THEN v ELSE increase_volume(increase_volume_times(v, n - 1))

RECURSIVE decrease_volume_times(_, _)
decrease_volume_times(v, n) ==
    IF n = 0 THEN v ELSE decrease_volume(decrease_volume_times(v, n - 1))

\* ----------------------------------------------------------------------
\* Player
\* ----------------------------------------------------------------------
\* a kill that is counted but ends nothing
kill_no_effect(pr, p) == [pr EXCEPT ![p].kill_calls = @ + 1]

\* Child::kill: SIGKILL ends a running process; the result is discarded
kill(pr, p) ==
    [pr EXCEPT ![p].status = IF @ = "running" THEN "dead" ELSE @,
               ![p].kill_calls = @ + 1]

\* a stop that drops the handle and leaves the child running
stop_procs_no_kill(cp, pr) == pr

\* Player::stop, the process table it leaves: the held child is killed
stop_procs(cp, pr) == IF cp # None THEN kill(pr, cp[1]) ELSE pr

\* a stop that forgets to reset the mute flag
stop_keeps_mute ==
    /\ procs' = stop_procs(current_player, procs)
    /\ current_player' = None
    /\ player_is_muted' = player_is_muted

\* Player::stop
stop ==
    /\ procs' = stop_procs(current_player, procs)
    /\ current_player' = None
    /\ player_is_muted' = FALSE

\* Player::play_station(station_name, url, visualizer).  spawn_ok says
\* whether Command::spawn finds and starts mpv, e is its error otherwise.
\* The calls it makes on the state lock touch fields the reader threads
\* never write except inside stream_info, which they only overwrite when it
\* is Some, so the call is one step.  Leaves is_muted and volume alone.
play_station(station_name, spawn_ok, e) ==
    LET pr == stop_procs(current_player, procs)
        pid == Spawned + 1
    IN  /\ player_is_muted' = FALSE
        /\ IF spawn_ok
           THEN /\ procs' = [pr EXCEPT ![pid] = [status |-> "running", kill_calls |-> 0]]
                /\ stream_info' = set_stream_info(station_name, Detecting, Detecting)
                /\ is_playing' = TRUE
                /\ reader' = [reader EXCEPT ![pid] = "running"]
                /\ current_player' = Some(pid)
                /\ ret' = "Ok"
           ELSE /\ procs' = pr
                /\ current_player' = None
                /\ stream_info' = set_stream_info(station_name, ErrorText,
                                                  FailedToStart \o e)
                /\ is_playing' = is_playing
                /\ reader' = reader
                /\ ret' = "Err"
        /\ stdout' = stdout

\* Player::toggle_mute, the flags it leaves: <<Player.is_muted,
\* AudioState.is_muted>>, given the two before the call
toggle_mute_flags(player_flag, state_flag) == <<~player_flag, ~player_flag>>

\* Player::toggle_mute (build without skip_mpv; the forwarding branch of
\* every target that compiles is Ok(()))
toggle_mute ==
    /\ player_is_muted' = toggle_mute_flags(player_is_muted, is_muted)[1]
    /\ is_muted' = toggle_mute_flags(player_is_muted, is_muted)[2]
    /\ ret' = IF current_player # None THEN "Ok" ELSE "Err"

\* a volume_up that raises the volume whether or not a decoder is held
volume_up_unheld ==
    volume' = increase_volume(volume) /\ ret' = "Ok"

\* Player::volume_up
volume_up ==
    IF current_player # None
    THEN volume' = increase_volume(volume) /\ ret' = "Ok"
    ELSE volume' = volume /\ ret' = "Err"

\* Player::volume_down
volume_down ==
    IF current_player # None
    THEN volume' = decrease_volume(volume) /\ ret' = "Ok"
    ELSE volume' = volume /\ ret' = "Err"

\* ----------------------------------------------------------------------
\* App
\* ----------------------------------------------------------------------
\* App::play_station(name, url, description): Player::play_station, whose
\* error the ? operator returns to the caller, then set_playing(true).  The
\* station id it looks up for the statistics is catalog state.
app_play_station(st, spawn_ok, e) ==
    /\ play_station(st.name, spawn_ok, e)
    /\ UNCHANGED <<is_muted, volume, animVars, twin, effects, uiVars>>

\* the inputs of one play key press
PlayInputs == Catalog \X BOOLEAN \X SpawnErrors

\* App::run dispatching one key: the loop goes on, or the handler's error
\* leaves run through the ? operator
Dispatch(failed) == run' = IF failed THEN "Err" ELSE "loop"

\* handle_normal_mode, KeyCode::Enter
KeyEnterNormal ==
    /\ run = "loop" /\ mode = "Normal" /\ Spawned < MaxProcs
    /\ \E in \in PlayInputs :
           /\ app_play_station(in[1], in[2], in[3])
           /\ Dispatch(~in[2])
    /\ mode' = mode

\* handle_rcast_stations_mode, KeyCode::Enter
KeyEnterRcast ==
    /\ run = "loop" /\ mode = "RcastStations" /\ Spawned < MaxProcs
    /\ \E in \in PlayInputs :
           /\ app_play_station(in[1], in[2], in[3])
           /\ Dispatch(~in[2])
    /\ mode' = mode

\* handle_search_mode, KeyCode::Enter
KeyEnterSearch ==
    /\ run = "loop" /\ mode = "Searching" /\ Spawned < MaxProcs
    /\ \E in \in PlayInputs :
           /\ app_play_station(in[1], in[2], in[3])
           /\ Dispatch(~in[2])
           /\ mode' = IF in[2] THEN "Normal" ELSE mode

\* handle_normal_mode, KeyCode::Char('s')
KeyStop ==
    /\ run = "loop" /\ mode = "Normal"
    /\ stop
    /\ is_playing' = FALSE
    /\ stream_info' = set_playing_info(stream_info, FALSE)
    /\ Dispatch(FALSE)
    /\ UNCHANGED <<is_muted, volume, animVars, twin, effects, uiVars, stdout, reader, mode, ret>>

\* KeyCode::Char('m') of handle_normal_mode and handle_rcast_stations_mode
KeyMute ==
    /\ run = "loop" /\ mode \in {"Normal", "RcastStations"}
    /\ toggle_mute
    /\ Dispatch(FALSE)
    /\ UNCHANGED <<current_player, is_playing, volume, stream_info, animVars, twin, effects, uiVars, osVars,
                   mode>>

\* KeyCode::Char('+') | KeyCode::Char('=')
KeyVolumeUp ==
    /\ run = "loop" /\ mode \in {"Normal", "RcastStations"}
    /\ volume_up
    /\ Dispatch(FALSE)
    /\ UNCHANGED <<playerVars, is_playing, is_muted, stream_info, animVars, twin, effects, uiVars, osVars,
                   mode>>

\* KeyCode::Char('-')
KeyVolumeDown ==
    /\ run = "loop" /\ mode \in {"Normal", "RcastStations"}
    /\ volume_down
    /\ Dispatch(FALSE)
    /\ UNCHANGED <<playerVars, is_playing, is_muted, stream_info, animVars, twin, effects, uiVars, osVars,
                   mode>>

\* KeyCode::Char('q'): the loop breaks and run cleans up with Player::stop
KeyQuit ==
    /\ run = "loop" /\ mode \in {"Normal", "RcastStations"}
    /\ stop
    /\ run' = "Ok"
    /\ UNCHANGED <<audioVars, twin, effects, uiVars, stdout, reader, mode, ret>>

\* terminal.draw, event::poll or event::read fails: the ? operator returns
\* the error from App::run before the clean-up is reached
LoopIoError ==
    /\ run = "loop"
    /\ run' = "Err"
    /\ UNCHANGED <<playerVars, audioVars, twin, effects, uiVars, osVars, mode, ret>>

\* keys that only change App.mode among the modes with a play key
KeyMode ==
    /\ run = "loop"
    /\ \/ mode = "Normal" /\ mode' = "RcastStations"
       \/ mode = "RcastStations" /\ mode' = "Normal"
       \/ mode \in {"Normal", "RcastStations"} /\ mode' = "Searching"
       \/ mode = "Searching" /\ mode' = "Normal"
    /\ UNCHANGED <<playerVars, audioVars, twin, effects, uiVars, osVars, run, ret>>

\* ----------------------------------------------------------------------
\* Decoder processes and their reader threads
\* ----------------------------------------------------------------------
RECURSIVE SumLen(_, _)
SumLen(pipes, n) == IF n = 0 THEN 0 ELSE Len(pipes[n]) + SumLen(pipes, n - 1)

\* lines written by the decoders and not yet read
Unread == SumLen(stdout, MaxProcs)

\* a running decoder writes one line to its stdout
DecoderEmit ==
    \E p \in Alive :
        /\ Unread < MaxPipe
        /\ \E line \in DecoderLines(p) :
               stdout' = [stdout EXCEPT ![p] = Append(@, line)]
        /\ UNCHANGED <<playerVars, audioVars, twin, effects, uiVars, procs, reader, mode, run, ret>>

\* a running decoder exits by itself (unplayable url, stream closed)
DecoderExit ==
    \E p \in Alive :
        /\ procs' = [procs EXCEPT ![p].status = "dead"]
        /\ UNCHANGED <<playerVars, audioVars, twin, effects, uiVars, stdout, reader, mode, run, ret>>

\* a reader that writes the parsed fields whether or not a StreamInfo exists
apply_status_creates(info, line) ==
    LET parsed == ParseStatusLine(line)
    IN  Some([bitrate |-> parsed.bitrate, format |-> parsed.format,
              station_name |-> IF info = None THEN <<>> ELSE info[1].station_name,
              current_song |-> parsed.song])

\* a reader that files the title as the station name
apply_status_renames(info, line) ==
    IF info = None THEN None
    ELSE LET parsed == ParseStatusLine(line)
         IN  Some([info[1] EXCEPT !.format = parsed.format,
                                  !.bitrate = parsed.bitrate,
                                  !.station_name = unwrap_or(parsed.song, @),
                                  !.current_song = parsed.song])

\* the stream_info a STATUS line leaves
apply_status(info, line) ==
    IF info = None THEN None
    ELSE LET parsed == ParseStatusLine(line)
         IN  Some([info[1] EXCEPT !.format = parsed.format,
                                  !.bitrate = parsed.bitrate,
                                  !.current_song = parsed.song])

\* a reader thread that counts the lines it reads in frame_count
ReaderLine_counts_frames ==
    \E p \in Pids :
        /\ reader[p] = "running"
        /\ stdout[p] # <<>>
        /\ stdout' = [stdout EXCEPT ![p] = Tail(@)]
        /\ stream_info' = IF starts_with(Head(stdout[p]), STATUS_COLON)
                          THEN apply_status(stream_info, Head(stdout[p]))
                          ELSE stream_info
        /\ frame_count' = frame_count + 1
        /\ UNCHANGED <<playerVars, is_playing, is_muted, volume, stars, bass_impact,
                       warp_speed, twin, effects, uiVars, procs, reader, mode, run, ret>>

\* one iteration of the reader thread's loop over reader.lines()
ReaderLine ==
    \E p \in Pids :
        /\ reader[p] = "running"
        /\ stdout[p] # <<>>
        /\ LET line == Head(stdout[p]) IN
           /\ stdout' = [stdout EXCEPT ![p] = Tail(@)]
           /\ stream_info' = IF starts_with(line, STATUS_COLON)
                             THEN apply_status(stream_info, line)
                             ELSE stream_info
        /\ reader' = reader
        /\ UNCHANGED <<playerVars, is_playing, is_muted, volume, animVars, twin, effects, uiVars, procs,
                       mode, run, ret>>

\* a reader thread that reports the end of the stream to the interface
ReaderEnd_clears ==
    \E p \in Pids :
        /\ reader[p] = "running"
        /\ \/ stdout[p] = <<>> /\ procs[p].status = "dead"
           \/ stdout[p] # <<>>
        /\ reader' = [reader EXCEPT ![p] = "done"]
        /\ is_playing' = FALSE
        /\ stream_info' = None
        /\ UNCHANGED <<playerVars, is_muted, volume, animVars, twin, effects, uiVars, procs, stdout,
                       mode, run, ret>>

\* the reader thread's loop ends: lines() is at end of file (the decoder is
\* gone and the pipe empty) or yields an Err (a read error, a line that is
\* not UTF-8), which map_while(Result::ok) turns into the end as well
ReaderEnd ==
    \E p \in Pids :
        /\ reader[p] = "running"
        /\ \/ stdout[p] = <<>> /\ procs[p].status = "dead"
           \/ stdout[p] # <<>>
        /\ reader' = [reader EXCEPT ![p] = "done"]
        /\ UNCHANGED <<playerVars, audioVars, twin, effects, uiVars, procs, stdout, mode, run, ret>>

Next ==
    \/ KeyEnterNormal
    \/ KeyEnterRcast
    \/ KeyEnterSearch
    \/ KeyStop
    \/ KeyMute
    \/ KeyQuit
    \/ KeyMode
    \/ LoopIoError
    \/ DecoderEmit
    \/ DecoderExit
    \/ ReaderLine
    \/ ReaderEnd

Spec == Init /\ [][Next]_vars

\* The volume keys write AudioState.volume and the result alone.  They are
\* checked with the Player operations that decide whether a decoder is held.
NextVolume ==
    \/ KeyEnterNormal
    \/ KeyStop
    \/ KeyMute
    \/ KeyVolumeUp
    \/ KeyVolumeDown
    \/ DecoderExit

SpecVolume == Init /\ [][NextVolume]_vars

\* ----------------------------------------------------------------------
\* The metadata parser on its own: one decoder runs and one line it wrote,
\* any of ParserLines, waits in its pipe
\* ----------------------------------------------------------------------
\* the --term-status-msg line for a title, a codec and a bitrate
StatusLine(title, codec, rate) ==
    STATUS_PREFIX \o title \o <<" ">> \o FORMAT_MARKER \o <<" ">> \o codec
        \o <<" ">> \o BITRATE_MARKER \o <<" ">> \o rate

\* the same line with the FORMAT: and the BITRATE: segment in the other order
SwappedLine(title, codec, rate) ==
    STATUS_PREFIX \o title \o <<" ">> \o BITRATE_MARKER \o <<" ">> \o rate
        \o <<" ">> \o FORMAT_MARKER \o <<" ">> \o codec

Titles == {<<>>, <<"s">>, <<"a", " ", "b">>}
Codecs == {<<>>, <<"m", "p">>}
Rates == {<<>>, <<"1", "2">>}

\* the line cut off at every position
Prefixes(line) == {Slice(line, 0, n) : n \in 0..Len(line)}

\* lines with one marker, with none, with nothing after a marker, with a
\* payload of white space, with the prefix twice or without its space, and
\* lines that are no status lines
OtherLines ==
    {STATUS_PREFIX \o <<"s", " ">> \o FORMAT_MARKER \o <<" ", "m">>,
     STATUS_PREFIX \o <<"s", " ">> \o BITRATE_MARKER \o <<" ", "1">>,
     STATUS_PREFIX \o <<" ", "s", " ", "t", "\t">>,
     STATUS_PREFIX \o FORMAT_MARKER,
     STATUS_PREFIX \o BITRATE_MARKER,
     STATUS_PREFIX \o <<" ", "\t", " ">>,
     STATUS_PREFIX \o STATUS_PREFIX \o <<"s">>,
     STATUS_COLON \o <<"s">>,
     <<" ">> \o STATUS_PREFIX \o <<"s">>,
     <<"(", "+", ")", " ", "s">>,
     <<" ", " ">>}

ParserLines ==
    {StatusLine(t, c, r) : t \in Titles, c \in Codecs, r \in Rates}
        \cup {SwappedLine(t, c, r) : t \in Titles, c \in Codecs, r \in Rates}
        \cup Prefixes(StatusLine(<<"s">>, <<"m", "p">>, <<"1", "2">>))
        \cup Prefixes(SwappedLine(<<"s">>, <<"m", "p">>, <<"1", "2">>))
        \cup OtherLines

\* the StreamInfo of the session when the line arrives: the placeholder of
\* play_station, or the fields an earlier status line left
PriorInfos ==
    {set_stream_info(<<"A">>, Detecting, Detecting),
     apply_status(set_stream_info(<<"A">>, Detecting, Detecting),
                  StatusLine(<<"o", "l", "d">>, <<"a", "a", "c">>, <<"6", "4">>))}

InitParser ==
    /\ current_player = Some(1)
    /\ player_is_muted = FALSE
    /\ is_playing = TRUE
    /\ is_muted = FALSE
    /\ volume = 50
    /\ stream_info \in PriorInfos
    /\ stars = AudioStateNew(DrawSlow, FAR_AWAY).stars
    /\ bass_impact = AudioStateNew(DrawSlow, FAR_AWAY).bass_impact
    /\ warp_speed = AudioStateNew(DrawSlow, FAR_AWAY).warp_speed
    /\ frame_count = AudioStateNew(DrawSlow, FAR_AWAY).frame_count
    /\ twin = NoTwin
    /\ effects = NoEffects
    /\ catalog = NoCatalog
    /\ input = NoInput
    /\ rcast = NoRcast
    /\ procs = [p \in Pids |-> IF p = 1 THEN [status |-> "running", kill_calls |-> 0]
                                ELSE Unborn]
    /\ \E line \in ParserLines :
           stdout = [p \in Pids |-> IF p = 1 THEN <<line>> ELSE <<>>]
    /\ reader = [p \in Pids |-> IF p = 1 THEN "running" ELSE "none"]
    /\ mode = "Normal"
    /\ run = "loop"
    /\ ret = "Ok"

NextParser ==
    \/ ReaderLine
    \/ ReaderEnd
    \/ KeyStop
    \/ DecoderExit

SpecParser == InitParser /\ [][NextParser]_vars

\* ----------------------------------------------------------------------
\* The animation: AudioVisualizer::update, called once per frame by App::run
\* ----------------------------------------------------------------------
\* state.update_visualization() on the locked state
locked_update(r) ==
    \E a \in {update_visualization([stars |-> stars, bass_impact |-> bass_impact,
                                     warp_speed |-> warp_speed,
                                     frame_count |-> frame_count,
                                     is_playing |-> is_playing], r)} :
        /\ stars' = a.stars
        /\ bass_impact' = a.bass_impact
        /\ warp_speed' = a.warp_speed
        /\ frame_count' = a.frame_count

\* AudioVisualizer::update when thread_rng yields the outcomes r and the
\* state lock is free
update(r) ==
    /\ locked_update(r)
    /\ UNCHANGED <<playerVars, is_playing, is_muted, volume, stream_info, twin, effects, uiVars, osVars,
                   mode, run, ret>>

\* the outcomes the first WarmupFrames frames have drawn
WarmupRng(target, add, remove) ==
    [drop |-> FALSE, bass_target |-> target, reset |-> DrawFast, recolor |-> TRUE,
     add |-> add, push |-> DrawSlow, remove |-> remove]

\* The animation fields after WarmupFrames frames: of a player that was
\* idle all the time, or of one that was started before the first frame.
WarmedUp(playing) ==
    {run_steps([AudioStateNew(d, z) EXCEPT !.is_playing = playing],
               WarmupFrames, WarmupRng(5999, coin, coin)) :
        d \in StarDraws, z \in InitDepths, coin \in BOOLEAN}

\* the animation fields are those of a
AnimIs(a) ==
    /\ stars = a.stars
    /\ bass_impact = a.bass_impact
    /\ warp_speed = a.warp_speed
    /\ frame_count = a.frame_count

\* the Player and the rest of AudioState, never started
PlayerIdle ==
    /\ current_player = None
    /\ player_is_muted = FALSE
    /\ is_playing = FALSE
    /\ is_muted = FALSE
    /\ volume = 50
    /\ stream_info = None
    /\ procs = [p \in Pids |-> Unborn]
    /\ stdout = [p \in Pids |-> <<>>]
    /\ reader = [p \in Pids |-> "none"]
    /\ mode = "Normal"
    /\ run = "loop"
    /\ ret = "none"

\* the Player and the rest of AudioState after one play_station that
\* returned Ok
PlayerStarted ==
    /\ current_player = Some(1)
    /\ player_is_muted = FALSE
    /\ is_playing = TRUE
    /\ is_muted = FALSE
    /\ volume = 50
    /\ stream_info = set_stream_info(<<"A">>, Detecting, Detecting)
    /\ procs = [p \in Pids |-> IF p = 1 THEN [status |-> "running", kill_calls |-> 0]
                                ELSE Unborn]
    /\ stdout = [p \in Pids |-> <<>>]
    /\ reader = [p \in Pids |-> IF p = 1 THEN "running" ELSE "none"]
    /\ mode = "Normal"
    /\ run = "loop"
    /\ ret = "Ok"

\* the Player and the rest of AudioState after that session was stopped
PlayerStopped ==
    /\ current_player = None
    /\ player_is_muted = FALSE
    /\ is_playing = FALSE
    /\ is_muted = FALSE
    /\ volume = 50
    /\ stream_info = None
    /\ procs = [p \in Pids |-> IF p = 1 THEN [status |-> "dead", kill_calls |-> 1]
                                ELSE Unborn]
    /\ stdout = [p \in Pids |-> <<>>]
    /\ reader = [p \in Pids |-> IF p = 1 THEN "running" ELSE "none"]
    /\ mode = "Normal"
    /\ run = "loop"
    /\ ret = "Ok"

InitStars ==
    /\ twin = NoTwin
    /\ effects = NoEffects
    /\ catalog = NoCatalog
    /\ input = NoInput
    /\ rcast = NoRcast
    /\ \/ PlayerIdle /\ \E a \in WarmedUp(FALSE) : AnimIs(a)
       \/ PlayerStarted /\ \E a \in WarmedUp(TRUE) : AnimIs(a)

\* the outcomes that matter to the playing branch, to the paused branch
PlayingRng == Rng(BOOLEAN, StarDraws, {TRUE}, BOOLEAN, {DrawSlow}, {FALSE})
PausedRng == Rng({FALSE}, StarDraws, {FALSE}, {FALSE}, {DrawSlow}, BOOLEAN)

\* one frame of App::run
UpdateStars ==
    /\ run = "loop"
    /\ frame_count < WarmupFrames + MaxFrames
    /\ \E r \in (IF is_playing THEN PlayingRng ELSE PausedRng) : update(r)

NextStars ==
    \/ UpdateStars
    \/ KeyEnterNormal
    \/ KeyStop

SpecStars == InitStars /\ [][NextStars]_vars

\* The idle animation: the player was stopped after WarmupFrames frames of
\* playing, or was never started, and stays idle.
InitIdle ==
    /\ twin = NoTwin
    /\ effects = NoEffects
    /\ catalog = NoCatalog
    /\ input = NoInput
    /\ rcast = NoRcast
    /\ \/ /\ PlayerStopped
          /\ \E a \in WarmedUp(TRUE) : AnimIs(a)
       \/ /\ PlayerIdle
          /\ \E d \in StarDraws : \E z \in InitDepths : AnimIs(AudioStateNew(d, z))

IdleRng == Rng({FALSE}, {DrawFast}, {FALSE}, {FALSE}, {DrawSlow}, {FALSE})

\* one frame of App::run while nothing plays
UpdateIdle ==
    /\ run = "loop"
    /\ ~is_playing
    /\ frame_count < WarmupFrames + IdleFrames
    /\ \E r \in IdleRng : update(r)

NextIdle == UpdateIdle

\* App::run draws frame after frame
SpecIdle == InitIdle /\ [][NextIdle]_vars /\ WF_vars(UpdateIdle)

\* The bass animation: the player was idle for WarmupFrames frames, or was
\* started before the first frame and every frame since drew the same bass
\* target, the lowest or the highest.
WarmedUpAt(playing, target) ==
    run_steps([AudioStateNew(DrawSlow, FAR_AWAY) EXCEPT !.is_playing = playing],
              WarmupFrames, WarmupRng(target, FALSE, FALSE))

InitBass ==
    /\ twin = NoTwin
    /\ effects = NoEffects
    /\ catalog = NoCatalog
    /\ input = NoInput
    /\ rcast = NoRcast
    /\ \/ PlayerIdle /\ AnimIs(WarmedUpAt(FALSE, 2000))
       \/ PlayerStarted /\ \E dr \in BOOLEAN : \E t \in BassTargets(dr) :
                               AnimIs(WarmedUpAt(TRUE, t))

BassRng == Rng(BOOLEAN, {DrawFast}, {FALSE}, {FALSE}, {DrawSlow}, {FALSE})

\* one frame of App::run
UpdateBass ==
    /\ run = "loop"
    /\ frame_count < WarmupFrames + BassFrames
    /\ \E r \in BassRng : update(r)

NextBass ==
    \/ UpdateBass
    \/ KeyEnterNormal
    \/ KeyStop

SpecBass == InitBass /\ [][NextBass]_vars

\* Two runs of one script: each run constructs its AudioState with
\* AudioState::new and then, per script step, sets is_playing and calls
\* update_visualization.  new and update_visualization take no seed and
\* no generator: each call draws from rand::thread_rng(), which the
\* operating system seeds, so the draws of one run do not fix the draws of
\* the other.
TwinDepths == {FAR_AWAY, Scale \div 2}

InitTwin ==
    /\ PlayerIdle
    /\ effects = NoEffects
    /\ catalog = NoCatalog
    /\ input = NoInput
    /\ rcast = NoRcast
    /\ \E d1 \in StarDraws : \E z1 \in TwinDepths : AnimIs(AudioStateNew(d1, z1))
    /\ \E d2 \in StarDraws : \E z2 \in TwinDepths : twin = AudioStateNew(d2, z2)

TwinRng == Rng({FALSE}, {DrawFast}, {FALSE}, BOOLEAN, {DrawSlow}, BOOLEAN)

\* one step of the script in both runs
ScriptStep ==
    /\ frame_count < TwinFrames
    /\ \E playing \in BOOLEAN :
           /\ is_playing' = playing
           /\ \E r1 \in TwinRng :
                  \E a \in {update_visualization(
                               [stars |-> stars, bass_impact |-> bass_impact,
                                warp_speed |-> warp_speed, frame_count |-> frame_count,
                                is_playing |-> playing], r1)} :
                      /\ stars' = a.stars
                      /\ bass_impact' = a.bass_impact
                      /\ warp_speed' = a.warp_speed
                      /\ frame_count' = a.frame_count
           /\ \E r2 \in TwinRng :
                  twin' = update_visualization([twin EXCEPT !.is_playing = playing], r2)
    /\ UNCHANGED <<playerVars, is_muted, volume, stream_info, effects, uiVars, osVars, mode,
                   run, ret>>

NextTwin == ScriptStep

SpecTwin == InitTwin /\ [][NextTwin]_vars

\* ----------------------------------------------------------------------
\* The state lock: Arc<Mutex<AudioState>>, taken by AudioVisualizer::update
\* and by the reader thread for every STATUS line
\* ----------------------------------------------------------------------
\* the reader threads inside `if let Ok(mut state) = vis_state.lock()`
LockHolders == {p \in Pids : reader[p] = "locked"}

InitLock ==
    /\ PlayerStarted
    /\ twin = NoTwin
    /\ effects = NoEffects
    /\ catalog = NoCatalog
    /\ input = NoInput
    /\ rcast = NoRcast
    /\ AnimIs(AudioStateNew(DrawSlow, FAR_AWAY))

\* the reader thread has read a STATUS line and vis_state.lock() returns:
\* the line stays at the head of stdout while the thread works on it
ReaderAcquire ==
    \E p \in Pids :
        /\ reader[p] = "running"
        /\ LockHolders = {}
        /\ stdout[p] # <<>>
        /\ starts_with(Head(stdout[p]), STATUS_COLON)
        /\ reader' = [reader EXCEPT ![p] = "locked"]
        /\ UNCHANGED <<playerVars, audioVars, twin, effects, uiVars, procs, stdout, mode, run, ret>>

\* the reader thread writes the parsed fields and drops the guard
ReaderRelease ==
    \E p \in LockHolders :
        /\ stream_info' = apply_status(stream_info, Head(stdout[p]))
        /\ stdout' = [stdout EXCEPT ![p] = Tail(@)]
        /\ reader' = [reader EXCEPT ![p] = "running"]
        /\ UNCHANGED <<playerVars, is_playing, is_muted, volume, animVars, twin, effects, uiVars, procs,
                       mode, run, ret>>

\* App::run calls self.visualizer.update(): Mutex::lock() returns at once
\* when the lock is free, and otherwise blocks the main thread until the
\* holder drops its guard.  lock() returns Err only for a poisoned mutex,
\* that is when a thread panicked while it held the guard; the reader's
\* critical section does not panic.
UpdateLock ==
    /\ run = "loop"
    /\ frame_count < LockFrames
    /\ IF LockHolders = {}
       THEN \E r \in IdleRng : update(r)
       ELSE /\ run' = "blocked"
            /\ UNCHANGED <<playerVars, audioVars, twin, effects, uiVars, osVars, mode, ret>>

\* the holder has dropped its guard: lock() returns in the main thread, the
\* animation step is made and App::run goes on
UpdateWake ==
    /\ run = "blocked"
    /\ LockHolders = {}
    /\ \E r \in IdleRng : locked_update(r)
    /\ run' = "loop"
    /\ UNCHANGED <<playerVars, is_playing, is_muted, volume, stream_info, twin, effects, uiVars, osVars,
                   mode, ret>>

NextLock ==
    \/ UpdateLock
    \/ UpdateWake
    \/ ReaderAcquire
    \/ ReaderRelease
    \/ ReaderLine
    \/ ReaderEnd
    \/ DecoderEmit
    \/ DecoderExit

SpecLock == InitLock /\ [][NextLock]_vars

\* The decoders and their reader threads, with the play and stop keys.  The
\* operating system schedules a reader thread that stands at the end of its
\* stream.
NextReaders ==
    \/ DecoderEmit
    \/ DecoderExit
    \/ ReaderLine
    \/ ReaderEnd
    \/ KeyEnterNormal
    \/ KeyStop

SpecReaders == InitLock /\ [][NextReaders]_vars /\ WF_vars(ReaderEnd)

\* ----------------------------------------------------------------------
\* Every writer of AudioState: the main loop's tick and keys, the readers
\* ----------------------------------------------------------------------
\* The player has had all but one of the sessions that are followed: each
\* was ended with the stop key and its reader thread has ended.  No frame
\* has been counted yet.
InitWriters ==
    /\ current_player = None
    /\ player_is_muted = FALSE
    /\ is_playing = FALSE
    /\ is_muted = FALSE
    /\ volume = 50
    /\ stream_info = None
    /\ AnimIs(AudioStateNew(DrawSlow, FAR_AWAY))
    /\ twin = NoTwin
    /\ effects = NoEffects
    /\ catalog = NoCatalog
    /\ input = NoInput
    /\ rcast = NoRcast
    /\ procs = [p \in Pids |-> IF p < MaxProcs
                                THEN [status |-> "dead", kill_calls |-> 1]
                                ELSE Unborn]
    /\ stdout = [p \in Pids |-> <<>>]
    /\ reader = [p \in Pids |-> IF p < MaxProcs THEN "done" ELSE "none"]
    /\ mode = "Normal"
    /\ run = "loop"
    /\ ret = "Ok"

\* one frame of App::run
UpdateWriters ==
    /\ run = "loop"
    /\ frame_count < WriterFrames
    /\ \E r \in IdleRng : update(r)

NextWriters ==
    \/ UpdateWriters
    \/ KeyEnterNormal
    \/ KeyStop
    \/ KeyMute
    \/ KeyVolumeUp
    \/ KeyVolumeDown
    \/ DecoderEmit
    \/ ReaderLine

SpecWriters == InitWriters /\ [][NextWriters]_vars

\* ----------------------------------------------------------------------
\* SoundEffectManager (audio/sound_effects.rs): its rodio sinks and the
\* fade-out threads.  A rodio Sink plays from append until Sink::stop is
\* called or the Sink is dropped, that is until the last Arc to it is gone.
\* ----------------------------------------------------------------------
SinkIds == 1..MaxSinks
FadeIds == 1..MaxFades

\* volume 1.0, in units in which every volume of a fade-out is a whole number
FullVolume == 1600

NoSink == [state |-> "unborn", volume |-> 0]
NoFade == [sink |-> 0, duration_ms |-> 0, i |-> 0, volume |-> 0, done |-> TRUE]

\* SoundEffectManager::new(): have_output says whether
\* OutputStream::try_default() finds an output device
EffectsNew(have_output) ==
    [stream_handle |-> have_output,
     tuning_sink |-> None,
     sinks |-> [s \in SinkIds |-> NoSink],
     fades |-> [t \in FadeIds |-> NoFade],
     ret |-> "none"]

\* let steps = if duration_ms > 3000 { 60 } else { 20 }
steps(duration_ms) == IF duration_ms > 3000 THEN 60 ELSE 20

\* let hold_steps = if duration_ms > 3000 { steps / 3 } else { 0 }
hold_steps(duration_ms) == IF duration_ms > 3000 THEN steps(duration_ms) \div 3 ELSE 0

\* a volume that falls by the same amount in every step
fade_volume_linear(i, n) == FullVolume - (FullVolume * i) \div n

\* progress = i / n; volume = 1.0 * (1.0 - progress * progress)
fade_volume(i, n) == FullVolume - (FullVolume * i * i) \div (n * n)

\* the fade-out threads that still hold their Arc to sink s
FadesOn(s) == {t \in FadeIds : effects.fades[t].sink = s /\ ~effects.fades[t].done}

\* the sinks that are playing
ActiveSinks == {s \in SinkIds : effects.sinks[s].state = "playing"}

\* the sinks created so far
SinksMade == Cardinality({s \in SinkIds : effects.sinks[s].state # "unborn"})

\* the state a sink is in when the manager lets go of its Arc to it
released(s) ==
    IF FadesOn(s) = {} THEN [effects.sinks[s] EXCEPT !.state = "stopped"]
    ELSE effects.sinks[s]

\* a play_tuning_sound that reports success whatever happens
PlayTuning_always_ok ==
    /\ SinksMade < MaxSinks
    /\ \E sink_ok \in BOOLEAN, asset_ok \in BOOLEAN :
           effects' = [effects EXCEPT !.ret = "Ok"]
    /\ UNCHANGED <<playerVars, audioVars, twin, uiVars, osVars, mode, run, ret>>

\* SoundEffectManager::play_tuning_sound.  sink_ok says whether
\* Sink::try_new succeeds, asset_ok whether get_radio_static_sound finds and
\* decodes the embedded clip.  The new sink plays from sink.append; the
\* assignment to tuning_sink then drops the manager's Arc to the old one.
PlayTuning ==
    /\ SinksMade < MaxSinks
    /\ \E sink_ok \in BOOLEAN, asset_ok \in BOOLEAN :
           effects' =
               IF ~effects.stream_handle
               THEN [effects EXCEPT !.ret = "Audio output not available"]
               ELSE IF ~sink_ok
               THEN [effects EXCEPT !.ret = "Failed to create audio sink"]
               ELSE IF ~asset_ok
               THEN [effects EXCEPT !.ret = "Failed to load embedded sound"]
               ELSE LET new == SinksMade + 1
                        old == effects.tuning_sink
                    IN  [effects EXCEPT
                            !.sinks = [s \in SinkIds |->
                                          IF s = new
                                          THEN [state |-> "playing", volume |-> FullVolume]
                                          ELSE IF old = Some(s) THEN released(s)
                                          ELSE @[s]],
                            !.tuning_sink = Some(new),
                            !.ret = "Ok"]
    /\ UNCHANGED <<playerVars, audioVars, twin, uiVars, osVars, mode, run, ret>>

\* SoundEffectManager::stop_tuning_sound
StopTuning ==
    /\ effects' = [effects EXCEPT
                      !.sinks = [s \in SinkIds |->
                                    IF effects.tuning_sink = Some(s)
                                    THEN [@[s] EXCEPT !.state = "stopped"]
                                    ELSE @[s]],
                      !.tuning_sink = None]
    /\ UNCHANGED <<playerVars, audioVars, twin, uiVars, osVars, mode, run, ret>>

\* SoundEffectManager::fade_out_tuning_sound(duration_ms): spawns the
\* fade-out thread with a clone of the Arc, if a sink is stored
FadeOut(duration_ms) ==
    /\ \E t \in FadeIds :
           /\ effects.fades[t] = NoFade
           /\ \A u \in FadeIds : u < t => effects.fades[u] # NoFade
           /\ effects' =
                  IF effects.tuning_sink = None THEN effects
                  ELSE [effects EXCEPT
                           !.fades[t] = [sink |-> effects.tuning_sink[1],
                                         duration_ms |-> duration_ms,
                                         i |-> 0,
                                         volume |-> effects.sinks[effects.tuning_sink[1]].volume,
                                         done |-> FALSE]]
    /\ UNCHANGED <<playerVars, audioVars, twin, uiVars, osVars, mode, run, ret>>

\* one step of a fade-out thread: an iteration of the hold loop, an
\* iteration of the fade loop, or the final sink.stop() after which the
\* thread ends and drops its Arc
FadeStep ==
    /\ \E t \in FadeIds :
           LET th == effects.fades[t]
               n == steps(th.duration_ms)
               hold == hold_steps(th.duration_ms)
               v == IF th.i < hold THEN FullVolume
                    ELSE fade_volume(th.i - hold, n - hold)
           IN  /\ ~th.done
               /\ effects' =
                      IF th.i < n
                      THEN [effects EXCEPT !.sinks[th.sink].volume = v,
                                           !.fades[t].volume = v,
                                           !.fades[t].i = @ + 1]
                      ELSE [effects EXCEPT !.sinks[th.sink].state = "stopped",
                                           !.fades[t].done = TRUE]
    /\ UNCHANGED <<playerVars, audioVars, twin, uiVars, osVars, mode, run, ret>>

\* the durations fade_out_tuning_sound is called with: the longest that
\* counts as short, the shortest that counts as long
Durations == {3000, 3001}

InitEffects ==
    /\ PlayerIdle
    /\ AnimIs(AudioStateNew(DrawSlow, FAR_AWAY))
    /\ twin = NoTwin
    /\ \E have_output \in BOOLEAN : effects = EffectsNew(have_output)
    /\ catalog = NoCatalog
    /\ input = NoInput
    /\ rcast = NoRcast

\* the manager's operations in any order, with short fade-outs
NextEffects ==
    \/ PlayTuning
    \/ StopTuning
    \/ FadeOut(3000)
    \/ FadeStep

SpecEffects == InitEffects /\ [][NextEffects]_vars

\* The fade-outs of one tuning sound: play_tuning_sound has returned Ok
\* once, the sink plays at full volume.
InitFade ==
    /\ PlayerIdle
    /\ AnimIs(AudioStateNew(DrawSlow, FAR_AWAY))
    /\ twin = NoTwin
    /\ effects = [EffectsNew(TRUE) EXCEPT
                     !.sinks[1] = [state |-> "playing", volume |-> FullVolume],
                     !.tuning_sink = Some(1),
                     !.ret = "Ok"]
    /\ catalog = NoCatalog
    /\ input = NoInput
    /\ rcast = NoRcast

NextFade ==
    \/ \E d \in Durations : FadeOut(d)
    \/ FadeStep
    \/ StopTuning

SpecFade == InitFade /\ [][NextFade]_vars

\* ----------------------------------------------------------------------
\* The station catalog: the stations table of src/db/mod.rs, and App's copy
\* of it with the list selection and the id of the station being played.
\* A row is its id, its url and its favorite flag; name and description
\* take part in no decision, the url stands for them where a text is asked.
\* ----------------------------------------------------------------------
Urls == {"u1", "u2"}

Row(id, url) == [id |-> id, url |-> url, favorite |-> FALSE]

\* the smallest id among rows
min_id(rows) == CHOOSE i \in {r.id : r \in rows} : \A r \in rows : i <= r.id

\* the rowid an INSERT gets: one more than the largest rowid of the table
last_insert_rowid(table) ==
    IF table = {} THEN 1
    ELSE 1 + CHOOSE i \in {r.id : r \in table} : \A r \in table : r.id <= i

\* db::add_station: the table after the INSERT (no column is UNIQUE)
add_station(table, url) == table \cup {Row(last_insert_rowid(table), url)}

\* db::delete_station
delete_station(table, station_id) == {r \in table : r.id # station_id}

\* db::update_station
update_station(table, station_id, url) ==
    {IF r.id = station_id THEN [r EXCEPT !.url = url] ELSE r : r \in table}

\* db::toggle_favorite
toggle_favorite(table, station_id, new_favorite) ==
    {IF r.id = station_id THEN [r EXCEPT !.favorite = new_favorite] ELSE r : r \in table}

\* a duplicate removal that keeps the newest row of every url
remove_duplicate_urls_keeps_last(table) ==
    {r \in table : \A q \in table : q.url = r.url => q.id <= r.id}

\* db::remove_duplicate_urls: for every url with count > 1,
\* DELETE FROM stations WHERE url = ?1 AND id != MIN(id)
remove_duplicate_urls(table) ==
    {r \in table :
        LET same == {q \in table : q.url = r.url}
        IN  Cardinality(same) > 1 => r.id = min_id(same)}

\* the rows of a SELECT over the table, in rowid order
RECURSIVE query_map(_)
query_map(rows) ==
    IF rows = {} THEN <<>>
    ELSE LET first == CHOOSE r \in rows : r.id = min_id(rows)
         IN  <<first>> \o query_map(rows \ {first})

\* db::load_stations: the table it leaves and the list it returns
load_stations(table) ==
    [table |-> remove_duplicate_urls(table),
     stations |-> query_map(remove_duplicate_urls(table))]

\* self.stations = load_stations(&self.conn)? after a statement left table
reload(c, table) ==
    [c EXCEPT !.table = load_stations(table).table,
              !.stations = load_stations(table).stations]

\* list_state.selected() names an entry of self.stations
selected_in_list(c) ==
    c.selected # None /\ c.selected[1] < Len(c.stations)

\* the entry list_state.selected() names
selected_station(c) == c.stations[c.selected[1] + 1]

\* App::new: init_db has seeded an empty table, load_stations has run, the
\* first entry is selected and nothing is being played
InitCatalog ==
    /\ PlayerIdle
    /\ AnimIs(AudioStateNew(DrawSlow, FAR_AWAY))
    /\ twin = NoTwin
    /\ effects = NoEffects
    /\ input = NoInput
    /\ rcast = NoRcast
    /\ catalog = [table |-> {Row(1, "u1"), Row(2, "u2")},
                  stations |-> <<Row(1, "u1"), Row(2, "u2")>>,
                  selected |-> Some(0),
                  current_station_id |-> None,
                  edit_station_id |-> 0]

\* what a key of the catalog leaves alone besides the catalog and the mode
CatalogFrame ==
    UNCHANGED <<playerVars, audioVars, twin, effects, input, rcast, osVars, ret>>

\* handle_normal_mode, KeyCode::Down
KeyDown ==
    /\ run = "loop" /\ mode = "Normal"
    /\ catalog.stations # <<>>
    /\ catalog' = [catalog EXCEPT !.selected =
                      IF @ = None THEN Some(0)
                      ELSE IF @[1] >= Len(catalog.stations) - 1 THEN Some(0)
                      ELSE Some(@[1] + 1)]
    /\ Dispatch(FALSE)
    /\ mode' = mode
    /\ CatalogFrame

\* handle_normal_mode, KeyCode::Up
KeyUp ==
    /\ run = "loop" /\ mode = "Normal"
    /\ catalog.stations # <<>>
    /\ catalog' = [catalog EXCEPT !.selected =
                      IF @ = None THEN Some(0)
                      ELSE IF @[1] = 0 THEN Some(Len(catalog.stations) - 1)
                      ELSE Some(@[1] - 1)]
    /\ Dispatch(FALSE)
    /\ mode' = mode
    /\ CatalogFrame

\* App::play_station after Player::play_station returned Ok: add_station
\* inserts a row for the station and its rowid becomes current_station_id
track_station(c, url) ==
    [c EXCEPT !.table = add_station(c.table, url),
              !.current_station_id = Some(last_insert_rowid(c.table))]

\* handle_normal_mode, KeyCode::Enter, with the catalog
KeyEnterStation ==
    /\ run = "loop" /\ mode = "Normal" /\ Spawned < MaxProcs
    /\ selected_in_list(catalog)
    /\ last_insert_rowid(catalog.table) <= MaxId
    /\ \E spawn_ok \in BOOLEAN, e \in SpawnErrors :
           /\ play_station(<<selected_station(catalog).url>>, spawn_ok, e)
           /\ catalog' = IF spawn_ok
                         THEN track_station(catalog, selected_station(catalog).url)
                         ELSE catalog
           /\ Dispatch(~spawn_ok)
    /\ mode' = mode
    /\ UNCHANGED <<is_muted, volume, animVars, twin, effects, input, rcast>>

\* handle_normal_mode, KeyCode::Char('s'), with the catalog
KeyStopStation ==
    /\ run = "loop" /\ mode = "Normal"
    /\ stop
    /\ is_playing' = FALSE
    /\ stream_info' = set_playing_info(stream_info, FALSE)
    /\ catalog' = [catalog EXCEPT !.current_station_id = None]
    /\ Dispatch(FALSE)
    /\ UNCHANGED <<is_muted, volume, animVars, twin, effects, input, rcast, stdout,
                   reader, mode, ret>>

\* handle_normal_mode, KeyCode::Char('f')
KeyFavorite ==
    /\ run = "loop" /\ mode = "Normal"
    /\ selected_in_list(catalog)
    /\ catalog' = reload(catalog,
                         toggle_favorite(catalog.table, selected_station(catalog).id,
                                         ~selected_station(catalog).favorite))
    /\ Dispatch(FALSE)
    /\ mode' = mode
    /\ CatalogFrame

\* handle_normal_mode: 'a', and 'e' and 'd' with an entry selected
KeyOpen ==
    /\ run = "loop" /\ mode = "Normal"
    /\ \/ /\ mode' = "AddingStation"
          /\ catalog' = catalog
       \/ /\ selected_in_list(catalog)
          /\ mode' = "EditingStation"
          /\ catalog' = [catalog EXCEPT !.edit_station_id = selected_station(catalog).id]
       \/ /\ selected_in_list(catalog)
          /\ mode' = "DeletingStation"
          /\ catalog' = catalog
    /\ Dispatch(FALSE)
    /\ CatalogFrame

\* Esc of handle_adding_mode, handle_editing_mode and handle_deleting_mode,
\* and 'n' of handle_deleting_mode
KeyEsc ==
    /\ run = "loop" /\ mode \in {"AddingStation", "EditingStation", "DeletingStation"}
    /\ mode' = "Normal"
    /\ catalog' = catalog
    /\ Dispatch(FALSE)
    /\ CatalogFrame

\* handle_adding_mode, KeyCode::Enter with a name and the url typed in
AddSubmit ==
    /\ run = "loop" /\ mode = "AddingStation"
    /\ last_insert_rowid(catalog.table) <= MaxId
    /\ \E url \in Urls : catalog' = reload(catalog, add_station(catalog.table, url))
    /\ mode' = "Normal"
    /\ Dispatch(FALSE)
    /\ CatalogFrame

\* an edit whose reload also moves the selection back into the list
EditSubmit_clamps ==
    /\ run = "loop" /\ mode = "EditingStation"
    /\ \E url \in Urls :
           \E c \in {reload(catalog, update_station(catalog.table,
                                                    catalog.edit_station_id, url))} :
               catalog' = [c EXCEPT !.selected =
                              IF c.stations = <<>> THEN None
                              ELSE IF @ # None /\ @[1] >= Len(c.stations)
                                   THEN Some(Len(c.stations) - 1) ELSE @]
    /\ mode' = "Normal"
    /\ Dispatch(FALSE)
    /\ CatalogFrame

\* handle_editing_mode, KeyCode::Enter with a name and the url typed in
EditSubmit ==
    /\ run = "loop" /\ mode = "EditingStation"
    /\ \E url \in Urls :
           catalog' = reload(catalog, update_station(catalog.table,
                                                     catalog.edit_station_id, url))
    /\ mode' = "Normal"
    /\ Dispatch(FALSE)
    /\ CatalogFrame

\* handle_deleting_mode, KeyCode::Char('y')
DeleteConfirm ==
    /\ run = "loop" /\ mode = "DeletingStation"
    /\ selected_in_list(catalog)
    /\ LET i == catalog.selected[1]
           c == reload(catalog, delete_station(catalog.table, selected_station(catalog).id))
       IN  catalog' = [c EXCEPT !.selected =
                          IF c.stations # <<>>
                          THEN (IF i >= Len(c.stations) THEN Some(Len(c.stations) - 1) ELSE @)
                          ELSE None]
    /\ mode' = "Normal"
    /\ Dispatch(FALSE)
    /\ CatalogFrame

\* Tab of handle_normal_mode with the directory already fetched
KeyTab ==
    /\ run = "loop" /\ mode = "Normal"
    /\ mode' = "RcastStations"
    /\ catalog' = catalog
    /\ Dispatch(FALSE)
    /\ CatalogFrame

\* Esc and Tab of handle_rcast_stations_mode
KeyBack ==
    /\ run = "loop" /\ mode = "RcastStations"
    /\ mode' = "Normal"
    /\ catalog' = [catalog EXCEPT !.selected =
                      IF catalog.stations # <<>> /\ @ = None THEN Some(0) ELSE @]
    /\ Dispatch(FALSE)
    /\ CatalogFrame

\* handle_rcast_stations_mode, KeyCode::Char('a') with an entry selected
RcastAdd ==
    /\ run = "loop" /\ mode = "RcastStations"
    /\ last_insert_rowid(catalog.table) <= MaxId
    /\ \E url \in Urls : catalog' = reload(catalog, add_station(catalog.table, url))
    /\ mode' = mode
    /\ Dispatch(FALSE)
    /\ CatalogFrame

NextCatalog ==
    \/ KeyDown
    \/ KeyUp
    \/ KeyEnterStation
    \/ KeyStopStation
    \/ KeyFavorite
    \/ KeyOpen
    \/ KeyEsc
    \/ AddSubmit
    \/ EditSubmit
    \/ DeleteConfirm
    \/ KeyTab
    \/ KeyBack
    \/ RcastAdd

SpecCatalog == InitCatalog /\ [][NextCatalog]_vars

\* ----------------------------------------------------------------------
\* load_stations on its own: App::new opens a database an earlier run has
\* left, with any urls in the rows 1..MaxId + 1, and loads it
\* ----------------------------------------------------------------------
StoredUrls == Urls \cup {"u3"}

InitDedup ==
    /\ PlayerIdle
    /\ AnimIs(AudioStateNew(DrawSlow, FAR_AWAY))
    /\ twin = NoTwin
    /\ effects = NoEffects
    /\ input = NoInput
    /\ rcast = NoRcast
    /\ \E f \in [1..(MaxId + 1) -> StoredUrls] :
           catalog = [table |-> {Row(i, f[i]) : i \in 1..(MaxId + 1)},
                      stations |-> <<>>,
                      selected |-> None,
                      current_station_id |-> None,
                      edit_station_id |-> 0]

\* App::new: load_stations, and the first entry is selected
LoadStations ==
    /\ run = "loop" /\ mode = "Normal"
    /\ catalog.stations = <<>>
    /\ catalog' = [reload(catalog, catalog.table) EXCEPT !.selected = Some(0)]
    /\ UNCHANGED <<playerVars, audioVars, twin, effects, input, rcast, osVars, mode, run, ret>>

NextDedup == LoadStations \/ KeyDown \/ KeyUp

SpecDedup == InitDedup /\ [][NextDedup]_vars

\* ----------------------------------------------------------------------
\* The station form of AddingStation and EditingStation modes.  A String is
\* the sequence of its UTF-8 bytes; input_cursor is a byte offset for
\* String::insert and String::remove.  The two handlers are the same code
\* over the add_station_* and the edit_station_* fields.
\* ----------------------------------------------------------------------
\* a char of one byte and a char of two bytes (lead, continuation)
Chars == {<<"a">>, <<"e1", "e2">>}

\* str::is_char_boundary
is_char_boundary(str, index) ==
    \/ index = 0
    \/ index = Len(str)
    \/ index < Len(str) /\ str[index + 1] # "e2"

\* char::len_utf8 of the char that starts at byte idx
len_utf8_at(str, idx) == IF str[idx + 1] = "e1" THEN 2 ELSE 1

\* String::insert(idx, ch) does not panic
can_insert(str, idx) == is_char_boundary(str, idx)

\* String::insert(idx, ch)
insert(str, idx, ch) == Slice(str, 0, idx) \o ch \o Slice(str, idx, Len(str))

\* String::remove(idx) does not panic
can_remove(str, idx) == idx < Len(str) /\ is_char_boundary(str, idx)

\* String::remove(idx)
remove(str, idx) ==
    Slice(str, 0, idx) \o Slice(str, idx + len_utf8_at(str, idx), Len(str))

\* the form of App::new: empty fields, input_field 0, input_cursor 0
InputNew ==
    [fields |-> <<<<>>, <<>>, <<>>>>, input_field |-> 0, input_cursor |-> 0]

\* the field input_field names
active(in) == in.fields[in.input_field + 1]

\* texts of stations in the list: name, url, description
StationTexts == {<<<<"a">>, <<"a", "a">>, <<>>>>,
                 <<<<"e1", "e2">>, <<"a">>, <<"a">>>>}

InitInput ==
    /\ PlayerIdle
    /\ AnimIs(AudioStateNew(DrawSlow, FAR_AWAY))
    /\ twin = NoTwin
    /\ effects = NoEffects
    /\ catalog = NoCatalog
    /\ rcast = NoRcast
    /\ input = InputNew

\* what a key of the form leaves alone besides the form, the mode and run
InputFrame ==
    UNCHANGED <<playerVars, audioVars, twin, effects, catalog, rcast, osVars, ret>>

\* handle_normal_mode, KeyCode::Char('a')
KeyAdd ==
    /\ run = "loop" /\ mode = "Normal"
    /\ mode' = "AddingStation"
    /\ input' = InputNew
    /\ Dispatch(FALSE)
    /\ InputFrame

\* handle_normal_mode, KeyCode::Char('e') with a station selected
KeyEdit ==
    /\ run = "loop" /\ mode = "Normal"
    /\ mode' = "EditingStation"
    /\ \E texts \in StationTexts :
           input' = [fields |-> texts, input_field |-> 0, input_cursor |-> 0]
    /\ Dispatch(FALSE)
    /\ InputFrame

\* KeyCode::Tab
KeyFieldTab ==
    /\ run = "loop" /\ mode \in {"AddingStation", "EditingStation"}
    /\ LET field == (input.input_field + 1) % 3
       IN  input' = [input EXCEPT !.input_field = field,
                                  !.input_cursor = Len(input.fields[field + 1])]
    /\ Dispatch(FALSE)
    /\ mode' = mode
    /\ InputFrame

\* KeyCode::Char(c)
KeyChar ==
    /\ run = "loop" /\ mode \in {"AddingStation", "EditingStation"}
    /\ \E c \in Chars :
           /\ Len(active(input)) + Len(c) <= MaxBytes
           /\ IF input.input_cursor < Len(active(input))
                 /\ ~can_insert(active(input), input.input_cursor)
              THEN run' = "panic" /\ input' = input
              ELSE /\ input' = [input EXCEPT
                          !.fields[input.input_field + 1] =
                              IF input.input_cursor < Len(@)
                              THEN insert(@, input.input_cursor, c) ELSE @ \o c,
                          !.input_cursor = @ + 1]
                   /\ Dispatch(FALSE)
    /\ mode' = mode
    /\ InputFrame

\* KeyCode::Backspace
KeyBackspace ==
    /\ run = "loop" /\ mode \in {"AddingStation", "EditingStation"}
    /\ IF input.input_cursor > 0
       THEN IF can_remove(active(input), input.input_cursor - 1)
            THEN /\ input' = [input EXCEPT
                        !.fields[input.input_field + 1] = remove(@, input.input_cursor - 1),
                        !.input_cursor = @ - 1]
                 /\ Dispatch(FALSE)
            ELSE run' = "panic" /\ input' = input
       ELSE input' = input /\ Dispatch(FALSE)
    /\ mode' = mode
    /\ InputFrame

\* KeyCode::Left
KeyLeft ==
    /\ run = "loop" /\ mode \in {"AddingStation", "EditingStation"}
    /\ input' = [input EXCEPT !.input_cursor = IF @ > 0 THEN @ - 1 ELSE @]
    /\ Dispatch(FALSE)
    /\ mode' = mode
    /\ InputFrame

\* KeyCode::Right
KeyRight ==
    /\ run = "loop" /\ mode \in {"AddingStation", "EditingStation"}
    /\ input' = [input EXCEPT !.input_cursor =
                    IF @ < Len(active(input)) THEN @ + 1 ELSE @]
    /\ Dispatch(FALSE)
    /\ mode' = mode
    /\ InputFrame

NextInput ==
    \/ KeyAdd
    \/ KeyEdit
    \/ KeyFieldTab
    \/ KeyChar
    \/ KeyBackspace
    \/ KeyLeft
    \/ KeyRight
    \/ KeyEsc

SpecInput == InitInput /\ [][NextInput]_vars

\* ----------------------------------------------------------------------
\* The directory page of rcast.net and parse_stations_from_html
\* (src/rcast/mod.rs).  A station is its url; its name is looked up
\* elsewhere in the page and decides nothing.
\* ----------------------------------------------------------------------
var_pattern == <<"v", "a", "r", " ", "s", "t", "r", "e", "a", "m">>

\* "https://stream.rcast.net/", a text no operation looks into
STREAM_URL == <<"https://stream.rcast.net/">>

is_ascii_digit(c) == c \in {"0", "1", "2", "3", "4", "5", "6", "7", "8", "9"}

\* station_id.chars().all(|c| c.is_ascii_digit()) with an empty id refused
all_digits_nonempty(station_id) ==
    station_id # <<>> /\ \A i \in 1..Len(station_id) : is_ascii_digit(station_id[i])

\* station_id.chars().all(|c| c.is_ascii_digit())
all_digits(station_id) ==
    \A i \in 1..Len(station_id) : is_ascii_digit(station_id[i])

\* the while loop of parse_stations_from_html from search_pos on, with the
\* stations pushed and the ids seen so far
RECURSIVE parse_from(_, _, _, _)
parse_from(html, search_pos, stations, station_ids) ==
    LET pos == find(Slice(html, search_pos, Len(html)), var_pattern)
    IN  IF pos = None THEN stations
        ELSE LET after_var == search_pos + pos[1] + Len(var_pattern)
                 space_pos == find(Slice(html, after_var, Len(html)), <<" ">>)
             IN  IF space_pos = None
                 THEN parse_from(html, after_var, stations, station_ids)
                 ELSE LET station_id == Slice(html, after_var, after_var + space_pos[1])
                      IN  IF all_digits(station_id) /\ station_id \notin station_ids
                          THEN parse_from(html, after_var + space_pos[1],
                                          Append(stations, STREAM_URL \o station_id),
                                          station_ids \cup {station_id})
                          ELSE parse_from(html, after_var + space_pos[1],
                                          stations, station_ids)

\* rcast::parse_stations_from_html: the urls of the stations it returns
parse_stations_from_html(html) == parse_from(html, 0, <<>>, {})

\* what a page is put together from
Pieces == {var_pattern, <<"1">>, <<"2">>, <<" ">>, <<"=">>}

RECURSIVE PagesOf(_)
PagesOf(n) ==
    IF n = 0 THEN {<<>>}
    ELSE PagesOf(n - 1) \cup {page \o piece : page \in PagesOf(n - 1), piece \in Pieces}

Pages == PagesOf(MaxPieces)

\* no page has been fetched
InitRcast ==
    /\ PlayerIdle
    /\ AnimIs(AudioStateNew(DrawSlow, FAR_AWAY))
    /\ twin = NoTwin
    /\ effects = NoEffects
    /\ catalog = NoCatalog
    /\ input = NoInput
    /\ rcast = [html |-> <<>>, stations |-> <<>>]

\* rcast::fetch_stations, the first of the run: a page arrives and is parsed
FetchStations ==
    /\ run = "loop"
    /\ rcast.html = <<>>
    /\ \E html \in Pages :
           rcast' = [html |-> html, stations |-> parse_stations_from_html(html)]
    /\ UNCHANGED <<playerVars, audioVars, twin, effects, catalog, input, osVars,
                   mode, run, ret>>

NextRcast == FetchStations

SpecRcast == InitRcast /\ [][NextRcast]_vars

TypeOK ==
    /\ current_player \in {None} \cup {Some(p) : p \in Pids}
    /\ player_is_muted \in BOOLEAN /\ is_playing \in BOOLEAN /\ is_muted \in BOOLEAN
    /\ volume \in 0..255
    /\ Len(stream_info) <= 1
    /\ \A p \in Pids : procs[p].status \in {"unborn", "running", "dead"}
    /\ \A p \in Pids : reader[p] \in {"none", "running", "locked", "done"}
    /\ mode \in {"Normal", "RcastStations", "Searching", "AddingStation",
                "EditingStation", "DeletingStation"}
    /\ run \in {"loop", "blocked", "Ok", "Err", "panic"}
    /\ ret \in {"none", "Ok", "Err"}

\* ----------------------------------------------------------------------
\* Properties
\* ----------------------------------------------------------------------
\* a play key press: App::play_station is called
EnterStep == KeyEnterNormal \/ KeyEnterRcast \/ KeyEnterSearch

\* a play key press whose Player::play_station started a decoder
SpawnStep == EnterStep /\ Spawned' = Spawned + 1

\* the StreamInfo of a session that has just started
Placeholder(name) ==
    Some([station_name |-> name, format |-> Detecting, bitrate |-> Detecting,
          current_song |-> None])

\* the StreamInfo a failed spawn leaves
SpawnErrorInfo(name, e) ==
    Some([station_name |-> name, bitrate |-> ErrorText,
          format |-> FailedToStart \o e, current_song |-> None])

\* a crossfade window is open: an old and a new decoder run side by side
CrossfadeWindowOpen == Cardinality(Alive) = 2

C4_StartOnIdle ==
    [][\A st \in Catalog : \A e \in SpawnErrors :
          (run = "loop" /\ current_player = None /\ app_play_station(st, TRUE, e))
              => /\ ret' = "Ok"
                 /\ is_playing'
                 /\ stream_info' = Placeholder(st.name)
                 /\ Alive' = {Spawned'}
                 /\ current_player' = Some(Spawned')]_vars

\* the first start() has returned and no line of the decoder was written
C4_Witness ==
    /\ Spawned = 1 /\ current_player = Some(1) /\ Alive = {1}
    /\ ret = "Ok" /\ is_playing
    /\ stream_info = Placeholder(<<"A">>)
    /\ stdout[1] = <<>> /\ reader[1] = "running"

\* C5: when the decoder cannot be spawned play_station returns Err, the
\* StreamInfo is the error state with the requested station name, and
\* is_playing is not set.
C5_SpawnFailure ==
    [][\A st \in Catalog : \A e \in SpawnErrors :
          (run = "loop" /\ app_play_station(st, FALSE, e))
              => /\ ret' = "Err"
                 /\ stream_info' = SpawnErrorInfo(st.name, e)
                 /\ is_playing' = is_playing
                 /\ Alive' = {}]_vars

\* a start() of station B failed on an idle Player
C5_Witness ==
    /\ ret = "Err" /\ run = "Err"
    /\ ~is_playing
    /\ \E e \in SpawnErrors : stream_info = SpawnErrorInfo(<<"B">>, e)

\* C6: when the decoder started by the first start() exits at once, that
\* start() has returned an error, StreamInfo.format is the error state and
\* is_playing is what it was before the call, FALSE.
C6_ImmediateExitIsError ==
    (/\ Spawned = 1
     /\ current_player = Some(1)
     /\ procs[1] = [status |-> "dead", kill_calls |-> 0])
        => /\ ret = "Err"
           /\ ~is_playing
           /\ \E st \in Catalog : \E e \in SpawnErrors :
                  stream_info = SpawnErrorInfo(st.name, e)

\* C7: a failed spawn after a play key press leaves App::run in its loop.
C7_LoopSurvivesSpawnFailure ==
    [][(run = "loop" /\ EnterStep /\ ret' = "Err") => run' = "loop"]_vars

\* C8: after Player::stop no handle is held, the held decoder (if any) has
\* been killed and the Player's mute flag is FALSE; a stop with no session
\* and the flag down, as a second stop in a row is, changes nothing.
C8_StopIdempotent ==
    [][(KeyStop \/ KeyQuit)
          => /\ current_player' = None
             /\ ~player_is_muted'
             /\ \A p \in Pids :
                    current_player = Some(p)
                        => (p \notin Alive' /\ procs'[p].kill_calls = procs[p].kill_calls + 1)
             /\ (current_player = None /\ ~player_is_muted)
                    => UNCHANGED <<playerVars, procs>>]_vars

\* the session was stopped with the mute flag up
C8_Witness ==
    /\ run = "loop"
    /\ current_player = None /\ ~player_is_muted
    /\ is_muted
    /\ procs[1] = [status |-> "dead", kill_calls |-> 1]

\* C9: the stop key leaves is_playing = FALSE and no StreamInfo, and only a
\* start() brings a StreamInfo back: a reader thread that still works off
\* lines of a dead decoder does not.
C9_ClearedUntilNextStart ==
    /\ [][KeyStop => (~is_playing' /\ stream_info' = None)]_vars
    /\ [][(stream_info = None /\ stream_info' # None) => EnterStep]_vars
    /\ [][(~is_playing /\ is_playing') => EnterStep]_vars

\* playback was stopped and the reader of the killed decoder has a status
\* line left to process
C9_Witness ==
    /\ run = "loop"
    /\ ~is_playing /\ stream_info = None /\ current_player = None
    /\ \E p \in Pids :
           /\ procs[p] = [status |-> "dead", kill_calls |-> 1]
           /\ reader[p] = "running"
           /\ stdout[p] # <<>>
           /\ starts_with(Head(stdout[p]), STATUS_COLON)

\* C10: wherever the mute key is served, toggle_mute flips the Player's
\* flag and writes the new value into AudioState.is_muted, and two calls in
\* a row restore both flags.
C10_ToggleTwiceRestores ==
    (run = "loop" /\ mode \in {"Normal", "RcastStations"})
        => LET once == toggle_mute_flags(player_is_muted, is_muted)
               twice == toggle_mute_flags(once[1], once[2])
           IN  /\ once[1] = ~player_is_muted
               /\ once[2] = once[1]
               /\ twice = <<player_is_muted, is_muted>>

Max(a, b) == IF a >= b THEN a ELSE b

C12_VolumeInRange == volume \in 0..100

\* the volume is at its upper end with a decoder held and the mute flag up
C12_Witness ==
    /\ volume = 100
    /\ current_player # None
    /\ is_muted
    /\ ret = "Ok"

\* the reader thread takes `line` out of a decoder's pipe
ReaderReads(line) ==
    /\ ReaderLine
    /\ \E p \in Pids :
           /\ reader[p] = "running"
           /\ stdout[p] # <<>>
           /\ Head(stdout[p]) = line
           /\ stdout'[p] = Tail(stdout[p])

\* the line carries the status prefix
is_status(line) == starts_with(line, STATUS_COLON)

\* what a status line says after its "STATUS: " prefix
payload(line) == trim_start_matches(line, STATUS_PREFIX)

has(str, marker) == find(str, marker) # None

\* what follows the first `marker` in str
AfterFirst(str, marker) ==
    Slice(str, find(str, marker)[1] + Len(marker), Len(str))

\* what precedes the first `marker` in str, all of str when there is none
BeforeFirst(str, marker) ==
    IF has(str, marker) THEN Slice(str, 0, find(str, marker)[1]) ELSE str

Shorter(a, b) == IF Len(a) <= Len(b) THEN a ELSE b

\* C13: for every title, codec and bitrate value, the status line with the
\* BITRATE: segment before the FORMAT: segment leaves the same format,
\* bitrate and song as the line with FORMAT: first.
C13_MarkerOrderIndependence ==
    [][\A t \in Titles : \A c \in Codecs : \A r \in Rates :
          (ReaderReads(SwappedLine(t, c, r)) /\ stream_info # None)
              => stream_info' = apply_status(stream_info, StatusLine(t, c, r))]_vars

\* C14: a status line with neither marker leaves format = bitrate =
\* "Unknown" and as the song the whole payload, trimmed; when the payload is
\* empty or white space only it leaves no song.  The payload is the line
\* after its leading "STATUS: ".
C14_NoMarkers ==
    [][\A line \in ParserLines :
          (/\ ReaderReads(line) /\ is_status(line) /\ stream_info # None
           /\ ~has(line, FORMAT_MARKER) /\ ~has(line, BITRATE_MARKER))
              => /\ stream_info'[1].format = Unknown
                 /\ stream_info'[1].bitrate = Unknown
                 /\ stream_info'[1].current_song =
                        IF trim(payload(line)) = <<>> THEN None
                        ELSE Some(trim(payload(line)))]_vars

\* a status line without markers was read: its trimmed payload is the song
C14_Witness ==
    /\ stream_info # None
    /\ stream_info[1].current_song = Some(<<"s", " ", "t">>)
    /\ stream_info[1].format = Unknown
    /\ stream_info[1].bitrate = Unknown
    /\ stdout[1] = <<>>

\* C15: for every line the reader takes, whichever markers it holds, in
\* whichever order, and wherever it is cut off, every range the parser
\* slices the payload with lies inside the payload with start <= end, so
\* no slice panics and the line is worked off.
C15_ParserTotal ==
    [][\A line \in ParserLines :
          (ReaderReads(line) /\ is_status(line))
              => \A range \in SliceRanges(payload(line)) :
                     in_bounds(payload(line), range)]_vars

\* a status line cut off inside its BITRATE: marker was read
C15_Witness ==
    /\ stream_info # None
    /\ stream_info[1].format = <<"m", "p", " ", "B", "I", "T", "R">>
    /\ stream_info[1].bitrate = Unknown
    /\ stream_info[1].current_song = Some(<<"s">>)
    /\ stdout[1] = <<>>

\* C16: the reader thread writes nothing but StreamInfo.format, bitrate and
\* current_song: a line without the status prefix leaves all of AudioState
\* as it is, and a status line leaves station_name, and everything outside
\* the StreamInfo, as it is.
C16_ReaderFrame ==
    [][\A line \in ParserLines :
          ReaderReads(line)
              => /\ UNCHANGED <<is_playing, is_muted, volume, animVars>>
                 /\ ~is_status(line) => stream_info' = stream_info
                 /\ stream_info = None => stream_info' = None
                 /\ stream_info # None
                        => /\ stream_info' # None
                           /\ stream_info'[1].station_name = stream_info[1].station_name]_vars

\* a line that is no status line was taken from the pipe of a session whose
\* StreamInfo holds a song
C16_Witness ==
    /\ stdout[1] = <<>> /\ reader[1] = "running"
    /\ stream_info # None
    /\ stream_info[1].current_song = Some(<<"o", "l", "d">>)
    /\ stream_info[1].station_name = <<"A">>

\* C17 (as stated): format is the substring between FORMAT: and BITRATE:
\* (or the end of the line), "Unknown" without FORMAT:; bitrate is the
\* substring after BITRATE: with " kbps" appended, "Unknown" when BITRATE: is
\* absent or that substring is empty; song is the trimmed substring before
\* the first marker, None when empty.
C17_Original ==
    [][\A line \in ParserLines :
          (ReaderReads(line) /\ is_status(line) /\ stream_info # None)
              => LET str == payload(line)
                     before == trim(Shorter(BeforeFirst(str, FORMAT_MARKER),
                                            BeforeFirst(str, BITRATE_MARKER)))
                 IN  /\ stream_info'[1].format =
                            IF ~has(str, FORMAT_MARKER) THEN Unknown
                            ELSE BeforeFirst(AfterFirst(str, FORMAT_MARKER),
                                             BITRATE_MARKER)
                     /\ stream_info'[1].bitrate =
                            IF ~has(str, BITRATE_MARKER)
                                   \/ AfterFirst(str, BITRATE_MARKER) = <<>>
                            THEN Unknown
                            ELSE AfterFirst(str, BITRATE_MARKER) \o KBPS_SUFFIX
                     /\ stream_info'[1].current_song =
                            IF before = <<>> THEN None ELSE Some(before)]_vars

\* C17 (amended): format is the trimmed substring between FORMAT: and the
\* next BITRATE: (or the end of the line), "Unknown" without FORMAT:;
\* bitrate is the trimmed substring after BITRATE: with " kbps" appended,
\* "Unknown" when BITRATE: is absent or that substring is empty after
\* trimming; song is the trimmed substring before the first marker, None
\* when empty.
C17_FieldExtraction ==
    [][\A line \in ParserLines :
          (ReaderReads(line) /\ is_status(line) /\ stream_info # None)
              => LET str == payload(line)
                     before == trim(Shorter(BeforeFirst(str, FORMAT_MARKER),
                                            BeforeFirst(str, BITRATE_MARKER)))
                 IN  /\ stream_info'[1].format =
                            IF ~has(str, FORMAT_MARKER) THEN Unknown
                            ELSE trim(BeforeFirst(AfterFirst(str, FORMAT_MARKER),
                                                  BITRATE_MARKER))
                     /\ stream_info'[1].bitrate =
                            IF ~has(str, BITRATE_MARKER)
                                   \/ trim(AfterFirst(str, BITRATE_MARKER)) = <<>>
                            THEN Unknown
                            ELSE trim(AfterFirst(str, BITRATE_MARKER)) \o KBPS_SUFFIX
                     /\ stream_info'[1].current_song =
                            IF before = <<>> THEN None ELSE Some(before)]_vars

\* the status line of title "s", codec "mp" and bitrate "12" was read
C17_Witness ==
    /\ stream_info # None
    /\ stream_info[1].format = <<"m", "p">>
    /\ stream_info[1].bitrate = <<"1", "2">> \o KBPS_SUFFIX
    /\ stream_info[1].current_song = Some(<<"s">>)
    /\ stdout[1] = <<>>

\* the last frame was drawn with the player playing: warp_speed is
\* 1.0 + 2.0 * bass_impact, which no paused step leaves with bass_impact > 0
PlayingFrameDone ==
    /\ is_playing
    /\ frame_count > WarmupFrames
    /\ bass_impact > 0
    /\ warp_speed = Scale + 2 * bass_impact

\* C18: in a playing step a star whose depth has passed 1.0 ends the step
\* with a depth below 0.02, and after every step, playing or paused, no
\* star is deeper than 1.0.
C18_StarRecycling ==
    /\ [](\A i \in 1..Len(stars) : stars[i].z <= VIEWPORT)
    /\ [][(UpdateStars /\ is_playing)
             => \A i \in 1..Len(stars) :
                    stars[i].z + MulScaled(stars[i].speed, warp_speed') > VIEWPORT
                        => stars'[i].z < Scale \div 50]_vars

\* a playing step has just sent the first star back to the far end
C18_Witness ==
    /\ PlayingFrameDone
    /\ stars[1].z = FAR_AWAY

\* C20: the star field holds between 50 and 250 stars in every state; a
\* playing step appends one star or none, a paused step removes one or
\* none.
C20_StarCount ==
    /\ [](Len(stars) >= MIN_STARS /\ Len(stars) <= MAX_STARS)
    /\ [][(UpdateStars /\ is_playing)
             => Len(stars') \in {Len(stars), Len(stars) + 1}]_vars
    /\ [][(UpdateStars /\ ~is_playing)
             => Len(stars') \in {Len(stars) - 1, Len(stars)}]_vars

\* the field is full and the player has played through another frame
C20_Witness ==
    /\ PlayingFrameDone
    /\ Len(stars) = MAX_STARS

\* one unit in a thousand: below it a product with 0.95 rounds back to the
\* value it started from
Resolution == Scale \div 1000

\* one unit in a hundred
Eps == Scale \div 100

\* C19: while is_playing stays false every update step takes warp_speed
\* towards 0.5 and never across it, and bass_impact towards 0 and never
\* below it: neither moves away, both move as long as they are further off
\* than the arithmetic resolves, and both end up within 0.01 of their rest
\* value.
C19_IdleDecay ==
    /\ [][(UpdateIdle /\ ~is_playing)
             => /\ warp_speed' >= IDLE_WARP /\ warp_speed' <= warp_speed
                /\ (warp_speed - IDLE_WARP > Resolution => warp_speed' < warp_speed)
                /\ bass_impact' >= 0 /\ bass_impact' <= bass_impact
                /\ (bass_impact > Resolution => bass_impact' < bass_impact)]_vars
    /\ <>(warp_speed - IDLE_WARP <= Eps /\ bass_impact <= Eps)

\* a player that was stopped with the bass up has idled for a hundred
\* frames: warp_speed and bass_impact have come to rest
C19_Witness ==
    /\ ~is_playing
    /\ frame_count >= WarmupFrames + 100
    /\ bass_impact > 0 /\ bass_impact <= Eps
    /\ warp_speed > IDLE_WARP /\ warp_speed - IDLE_WARP <= Eps

\* ----------------------------------------------------------------------
\* C21: bass smoothing and the ranges of bass_impact and warp_speed
\* ----------------------------------------------------------------------
\* the largest rounding error of 0.9 * old + 0.1 * target: half a unit for
\* each of the two products
SmoothingError == 1

\* C21: after every playing step warp_speed is 1.0 + 2.0 * bass_impact,
\* where the new bass_impact is 0.9 * old + 0.1 * target for one of the bass
\* targets; across every sequence of frames, play keys and stop keys
\* bass_impact stays in [0, 1] and warp_speed stays in [0.5, 3.0].
C21_BassAndWarp ==
    /\ [](/\ bass_impact >= 0 /\ bass_impact <= Scale
          /\ warp_speed >= IDLE_WARP /\ warp_speed <= 3 * Scale)
    /\ [][(UpdateBass /\ is_playing)
             => /\ warp_speed' = Scale + 2 * bass_impact'
                /\ \E dr \in BOOLEAN : \E t \in BassTargets(dr) :
                       LET exact == 9 * bass_impact + t
                       IN  /\ 10 * bass_impact' >= exact - 10 * SmoothingError
                           /\ 10 * bass_impact' <= exact + 10 * SmoothingError]_vars

\* a playing step has kept the bass impact next to 1.0 and the warp speed
\* next to 3.0
C21_Witness ==
    /\ is_playing
    /\ frame_count > WarmupFrames
    /\ bass_impact >= Scale - Eps
    /\ warp_speed >= 3 * Scale - 2 * Eps

\* ----------------------------------------------------------------------
\* C22: determinism of the animation model
\* ----------------------------------------------------------------------
\* C22: two runs of AudioState that are stepped through the same scripted
\* playing/paused sequence have identical star fields, bass_impact and
\* warp_speed at every step.
C22_Deterministic ==
    /\ twin.frame_count = frame_count
    /\ twin.is_playing = is_playing
    /\ twin.stars = stars
    /\ twin.bass_impact = bass_impact
    /\ twin.warp_speed = warp_speed

\* ----------------------------------------------------------------------
\* C23: the per-frame update and the state lock
\* ----------------------------------------------------------------------
\* AudioVisualizer::update is called while a reader thread holds the lock
ContendedUpdate == UpdateLock /\ LockHolders # {}

\* C23: when AudioVisualizer::update finds the state lock held by another
\* thread, the update is skipped for that frame and the main loop goes on;
\* the main loop never waits for the lock.
C23_UpdateNeverBlocks ==
    /\ [](run # "blocked")
    /\ [][ContendedUpdate => (run' = "loop" /\ UNCHANGED animVars)]_vars

\* ----------------------------------------------------------------------
\* C24: the animation step is the only writer of the animation fields
\* ----------------------------------------------------------------------
\* what the Player operations and the reader threads write: the Player, the
\* other fields of AudioState, the processes and pipes, the key dispatch
OtherWrites ==
    <<playerVars, is_playing, is_muted, volume, stream_info, osVars, mode, run, ret>>

\* C24: stars, bass_impact, warp_speed and frame_count are written only by
\* the animation step of the main-loop tick: a step that changes one of
\* them adds one frame and writes nothing else, and every step of a reader
\* thread or a Player operation (play_station, stop, toggle_mute, volume_up,
\* volume_down) leaves the four fields unchanged.
C24_SingleWriter ==
    /\ [][animVars' # animVars
            => (frame_count' = frame_count + 1 /\ UNCHANGED OtherWrites)]_vars
    /\ [][(ReaderLine \/ KeyEnterNormal \/ KeyStop \/ KeyMute \/ KeyVolumeUp
            \/ KeyVolumeDown) => UNCHANGED animVars]_vars

\* a frame has been drawn while a decoder is held, muted, louder than at the
\* start, and its reader has written a parsed STATUS line
C24_Witness ==
    /\ frame_count > 0
    /\ current_player # None
    /\ is_muted
    /\ volume > 50
    /\ stream_info # None
    /\ stream_info[1].format \notin {Detecting, ErrorText}

\* ----------------------------------------------------------------------
\* C25: the end of a reader thread
\* ----------------------------------------------------------------------
\* C25: a reader thread whose decoder is gone comes to its end, and a
\* reader thread that ends (at end of file, on a closed pipe or on a read
\* error) propagates no error and leaves StreamInfo and is_playing as they
\* were: the step changes nothing but the thread itself.
C25_ReaderEndsSilently ==
    /\ [][\A p \in Pids :
             (reader[p] = "running" /\ reader'[p] = "done")
                 => /\ stream_info' = stream_info /\ is_playing' = is_playing
                    /\ run' = run /\ ret' = ret
                    /\ UNCHANGED <<playerVars, is_muted, volume, procs, stdout,
                                   mode>>]_vars
    /\ [][\A p \in Pids : reader[p] = "done" => reader'[p] = "done"]_vars
    /\ \A p \in Pids :
           (reader[p] = "running" /\ procs[p].status = "dead") ~> (reader[p] = "done")

\* the decoder has gone, its reader thread has ended, and the interface
\* still shows the session as playing with its last StreamInfo
C25_Witness ==
    /\ reader[1] = "done"
    /\ procs[1].status = "dead"
    /\ run = "loop"
    /\ is_playing
    /\ stream_info # None

\* ----------------------------------------------------------------------
\* C26: the tuning-effect sinks that play at the same time
\* ----------------------------------------------------------------------
\* C26: at most one tuning-effect sink is active at any time, also when
\* play_tuning_sound is called while a fade-out thread is still stepping
\* the previous sink.
C26_AtMostOneSink == Cardinality(ActiveSinks) <= 1

\* ----------------------------------------------------------------------
\* C27: the volume schedule of a fade-out
\* ----------------------------------------------------------------------
\* the fade-out threads that were spawned
Fades == {effects.fades[t] : t \in {u \in FadeIds : effects.fades[u] # NoFade}}

\* the number of volume steps of a fade-out, the number of them that hold
StepsFor(d) == IF d > 3000 THEN 60 ELSE 20
HoldFor(d) == IF d > 3000 THEN 20 ELSE 0

\* the volume th set last lies on the quadratic curve 1 - (j/n)^2, j being
\* the index of its last step in the n steps after the hold
OnQuadraticCurve(th) ==
    LET n == StepsFor(th.duration_ms) - HoldFor(th.duration_ms)
        j == th.i - 1 - HoldFor(th.duration_ms)
    IN  th.volume * n * n = FullVolume * (n * n - j * j)

\* the volume th set last lies on the straight line from 1 to 0 in n steps
OnLinearRamp(th) ==
    LET n == StepsFor(th.duration_ms)
    IN  th.volume * n = FullVolume * (n - (th.i - 1))

\* a fade-out holds full volume during its hold steps
HoldsFirst(th) ==
    (th.i >= 1 /\ th.i <= HoldFor(th.duration_ms)) => th.volume = FullVolume

\* a fade-out makes no more than its steps and ends with the sink stopped
EndsStopped(th) ==
    /\ th.i <= StepsFor(th.duration_ms)
    /\ th.done => /\ th.i = StepsFor(th.duration_ms)
                  /\ effects.sinks[th.sink].state = "stopped"

\* no step of a fade-out sets a higher volume than its step before
NeverLouder ==
    [][\A t \in FadeIds :
          effects.fades[t].i >= 1
              => effects'.fades[t].volume <= effects.fades[t].volume]_vars

\* C27 (as stated): for durations of at most 3000 ms the volume falls in 20
\* linear steps to zero; for durations over 3000 ms it is held at full for
\* the first third of the steps and then follows a quadratic curve; the
\* volume never increases and the routine ends by stopping the sink.
C27_Original ==
    /\ [](\A th \in Fades :
             /\ HoldsFirst(th)
             /\ EndsStopped(th)
             /\ th.i > HoldFor(th.duration_ms)
                    => IF th.duration_ms > 3000 THEN OnQuadraticCurve(th)
                       ELSE OnLinearRamp(th))
    /\ NeverLouder

\* C27 (amended): a fade-out makes 20 volume steps for durations of at most
\* 3000 ms and 60 for longer ones, of which the first third holds full
\* volume; the other steps follow the quadratic curve 1 - (j/n)^2 for every
\* duration, from full volume to 1 - ((n-1)/n)^2, which is above zero; the
\* volume the routine sets never increases from one of its steps to the
\* next, and the routine ends by stopping the sink.
C27_FadeSchedule ==
    /\ [](\A th \in Fades :
             /\ HoldsFirst(th)
             /\ EndsStopped(th)
             /\ th.i > HoldFor(th.duration_ms) => OnQuadraticCurve(th)
             /\ th.i >= 1 => th.volume > 0)
    /\ NeverLouder

\* a fade-out of more than 3000 ms has made its 60 steps and stopped the
\* sink; the last volume it set is 1 - (39/40)^2
C27_Witness ==
    \E th \in Fades :
        /\ th.duration_ms > 3000
        /\ th.done
        /\ th.volume * 1600 = FullVolume * 79
        /\ effects.sinks[th.sink].state = "stopped"

\* ----------------------------------------------------------------------
\* C28: the result of play_tuning_sound
\* ----------------------------------------------------------------------
\* the sink the manager stores is a new one that plays at full volume
NewSinkStored ==
    /\ effects'.tuning_sink # None
    /\ effects'.tuning_sink # effects.tuning_sink
    /\ effects.sinks[effects'.tuning_sink[1]].state = "unborn"
    /\ effects'.sinks[effects'.tuning_sink[1]] =
           [state |-> "playing", volume |-> FullVolume]

\* C28 (as stated): play_tuning_sound returns an error only if no audio
\* output is available; whenever an output stream handle exists it returns
\* Ok and a sink is stored.
C28_Original ==
    [][PlayTuning
         => IF effects.stream_handle
            THEN effects'.ret = "Ok" /\ NewSinkStored
            ELSE effects'.ret = "Audio output not available"]_vars

\* C28 (amended): play_tuning_sound returns an error if there is no output
\* stream handle, if no sink can be created on the handle, or if the
\* embedded clip cannot be loaded, and then stores nothing: the sink held
\* before stays the one held.  In every other case it returns Ok and a new
\* sink playing at full volume is stored.
C28_PlayResult ==
    [][PlayTuning
         => /\ effects'.ret \in {"Ok", "Audio output not available",
                                  "Failed to create audio sink",
                                  "Failed to load embedded sound"}
            /\ ~effects.stream_handle => effects'.ret = "Audio output not available"
            /\ effects'.ret = "Audio output not available" => ~effects.stream_handle
            /\ effects'.ret = "Ok" => NewSinkStored
            /\ effects'.ret # "Ok"
                   => effects' = [effects EXCEPT !.ret = effects'.ret]]_vars

\* with an output stream handle and a tuning sound playing, a second
\* play_tuning_sound has failed to create its sink: the first sink is still
\* the one stored, and it plays
C28_Witness ==
    /\ effects.stream_handle
    /\ effects.ret = "Failed to create audio sink"
    /\ effects.tuning_sink # None
    /\ effects.sinks[effects.tuning_sink[1]].state = "playing"

\* ----------------------------------------------------------------------
\* C29: status lines of a decoder that was replaced
\* ----------------------------------------------------------------------
\* what the reader threads parse from the status lines of decoder q
StatusOf(q) ==
    {ParseStatusLine(line) : line \in {l \in DecoderLines(q) : starts_with(l, STATUS_COLON)}}

\* C29: after a station switch the StreamInfo of the session that is held
\* never carries the format, bitrate or song of a status line that another,
\* already killed, decoder has written.
C29_NoStaleMetadata ==
    \A p \in Pids :
        (current_player = Some(p) /\ stream_info # None)
            => \A q \in Pids \ {p} : \A parsed \in StatusOf(q) :
                   /\ stream_info[1].format # parsed.format
                   /\ stream_info[1].current_song # parsed.song

\* ----------------------------------------------------------------------
\* C30: decoders the Player has started and not killed
\* ----------------------------------------------------------------------
\* the decoders that were started and never sent a kill
NotKilled == {p \in Pids : procs[p].status # "unborn" /\ procs[p].kill_calls = 0}

\* C30: after any sequence of play_station and stop calls at most one
\* decoder started by the Player has not been killed, and it is the one
\* whose handle the Player holds.
C30_AtMostOneNotKilled ==
    /\ Cardinality(NotKilled) <= 1
    /\ \A p \in NotKilled : current_player = Some(p)

\* the second session's decoder has exited by itself and is still held; the
\* first session's decoder was killed when the second was started
C30_Witness ==
    /\ current_player = Some(2)
    /\ procs[1].kill_calls = 1
    /\ procs[2] = [status |-> "dead", kill_calls |-> 0]
    /\ run = "loop"

\* ----------------------------------------------------------------------
\* C31: in every reachable state AudioState.is_playing = true implies that
\* Player.current_player holds a decoder process handle, also after a
\* play_station call that fails while another station was playing.
\* ----------------------------------------------------------------------
C31_PlayingImpliesHeld == is_playing => current_player # None

\* ----------------------------------------------------------------------
\* C32: Player.is_muted equals AudioState.is_muted in every reachable
\* state, for any sequence of toggle_mute, stop and play_station calls.
\* ----------------------------------------------------------------------
C32_MuteFlagsAgree == player_is_muted = is_muted

\* ----------------------------------------------------------------------
\* C33: whenever App::run has returned, on the quit path or on an error
\* path out of the main loop, Player::stop has been executed: no decoder
\* started by the application is still running and none is held.
\* ----------------------------------------------------------------------
C33_NoDecoderAfterRun == run # "loop" => (Alive = {} /\ current_player = None)

\* ----------------------------------------------------------------------
\* C34: volume_up and volume_down called while no decoder process is held
\* return an error and leave AudioState.volume unchanged; called while a
\* process is held they return Ok and change the volume by exactly 5
\* unless it is already at the bound.
\* ----------------------------------------------------------------------
C34_VolumeCalls ==
    /\ [][(KeyVolumeUp /\ current_player = None)
             => (ret' = "Err" /\ volume' = volume)]_vars
    /\ [][(KeyVolumeDown /\ current_player = None)
             => (ret' = "Err" /\ volume' = volume)]_vars
    /\ [][(KeyVolumeUp /\ current_player # None)
             => (ret' = "Ok" /\ volume' - volume = (IF volume = 100 THEN 0 ELSE 5))]_vars
    /\ [][(KeyVolumeDown /\ current_player # None)
             => (ret' = "Ok" /\ volume - volume' = (IF volume = 0 THEN 0 ELSE 5))]_vars

\* the volume was taken down to its lower bound with a decoder held that
\* has exited by itself
C34_Witness ==
    /\ volume = 0
    /\ ret = "Ok"
    /\ \E p \in Pids : current_player = Some(p) /\ procs[p].status = "dead"

\* ----------------------------------------------------------------------
\* C35: whenever App.current_station_id is Some(id), a row with that id
\* exists in the stations table, after any sequence of play, add, edit,
\* delete and favorite actions.
\* ----------------------------------------------------------------------
C35_CurrentStationExists ==
    catalog.current_station_id # None
        => \E r \in catalog.table : r.id = catalog.current_station_id[1]

\* load_stations took the table before to the table after and returned list
Deduplicated(before, after, list) ==
    /\ \A r \in after : \A q \in after : r.url = q.url => r = q
    /\ \A url \in {r.url : r \in before} :
           LET same == {r \in before : r.url = url}
           IN  /\ Cardinality(same) > 1
                     => {r \in after : r.url = url} = {r \in same : r.id = min_id(same)}
               /\ Cardinality(same) = 1 => same \subseteq after
    /\ after \subseteq before
    /\ {list[i] : i \in 1..Len(list)} = after
    /\ Len(list) = Cardinality(after)

\* C36: after load_stations returns, no two rows of the stations table
\* share a url: for every url that had several rows exactly the row with
\* the smallest id remains, rows whose url was unique are untouched, and the
\* returned list equals the remaining rows.
C36_LoadStationsDeduplicates ==
    [][LoadStations => Deduplicated(catalog.table, catalog'.table, catalog'.stations)]_vars

\* the rows 2 and 4 were removed as duplicates, the list returned is the
\* rows 1 and 3, and the selection was moved to the second entry
C36_Witness ==
    /\ catalog.stations = <<Row(1, "u1"), Row(3, "u2")>>
    /\ catalog.table = {Row(1, "u1"), Row(3, "u2")}
    /\ catalog.selected = Some(1)

\* ----------------------------------------------------------------------
\* C37: in every reachable state the station list selection is either None
\* or an index smaller than stations.len(), after Up and Down, after a
\* delete and after every action that reloads the catalog.
\* ----------------------------------------------------------------------
C37_SelectionInList ==
    catalog.selected = None \/ catalog.selected[1] < Len(catalog.stations)

\* ----------------------------------------------------------------------
\* C38: in AddingStation and EditingStation modes, for every sequence of
\* character, Backspace, Left, Right and Tab keys, input_cursor stays a
\* valid insertion position of the active field (at most its length and on
\* a character boundary), so no insert or remove is attempted at an
\* invalid position.
\* ----------------------------------------------------------------------
C38_CursorValid ==
    /\ mode \in {"AddingStation", "EditingStation"}
           => /\ input.input_cursor <= Len(active(input))
              /\ is_char_boundary(active(input), input.input_cursor)
    /\ run # "panic"

\* the digits of a returned url: what follows "https://stream.rcast.net/"
IdOf(url) == Slice(url, Len(STREAM_URL), Len(url))

\* ----------------------------------------------------------------------
\* C39: parse_stations_from_html returns stations only for identifiers
\* that are a non-empty string of ASCII digits: every returned url is
\* "https://stream.rcast.net/" followed by one or more digits, and no two
\* returned stations share a url.
\* ----------------------------------------------------------------------
C39_NumericStations ==
    /\ \A i \in 1..Len(rcast.stations) :
           /\ starts_with(rcast.stations[i], STREAM_URL)
           /\ all_digits_nonempty(IdOf(rcast.stations[i]))
    /\ \A i \in 1..Len(rcast.stations) : \A j \in 1..Len(rcast.stations) :
           rcast.stations[i] = rcast.stations[j] => i = j

====
